---- MODULE Spec2Model ----
(***************************************************************************)
(* Idea Evaluation & Promotion Engine of the Innovation Hub.                *)
(*                                                                         *)
(* The React client (App.tsx) holds a local copy of the fragments, the     *)
(* fragment drawer and the rubric sliders; every mutation of a fragment is  *)
(* an HTTP request to the backend, which owns the Fragment and Idea         *)
(* aggregates.  The backend is modelled from the design document (sections  *)
(* 4.1 - 4.3); the client is modelled from App.tsx.                         *)
(***************************************************************************)
EXTENDS Integers, Sequences, FiniteSets, TLC

VARIABLES
    srvFragments,        \* backend: sequence of Fragment aggregates, index = id
    srvIdeas,            \* backend: sequence of Idea records, index = id
    fragments,           \* client: useState<Fragment[]>([])
    selectedFragment,    \* client: useState<Fragment | null>(null)
    showFragmentDrawer,  \* client: useState(false)
    newFragmentComment,  \* client: textarea contents
    isBuildingOn,        \* client: checkbox
    ideas,               \* client: useState<Idea[]>([])
    selectedIdea,        \* client: useState<Idea | null>(null)
    calls,               \* async handlers awaiting the backend, in issue order
    showIdeaDrawer,      \* client: useState(false)
    rubricScores,        \* client: the six slider values
    rubricLoading,       \* client: useState(false)
    rubricResult,        \* client: useState<any>(null)
    hasUpvoted,          \* client: useState(false)
    currentView,         \* client: useState('dashboard')
    persona,             \* client: useState('innovator')
    upvotesSent,         \* upvote requests the idea drawer sent since it was opened
    limits               \* the bounds of the run, fixed by the initial state

vars == <<srvFragments, srvIdeas, fragments, selectedFragment, showFragmentDrawer,
          newFragmentComment, isBuildingOn, ideas, selectedIdea, calls, showIdeaDrawer,
          rubricScores, rubricLoading, rubricResult, hasUpvoted, currentView,
          persona, upvotesSent, limits>>

\* the view displayed and the persona of the header's menu
navVars == <<currentView, persona>>

\* the AI Recommend button of the Strategic Fit panel
advisorVars == <<rubricLoading, rubricResult>>

\* the state of the idea drawer and its Strategic Fit panel
rubricVars == <<showIdeaDrawer, rubricScores, advisorVars, hasUpvoted>>

---------------------------------------------------------------------------
(* Bounds of the model. *)
MaxComments == 7
MaxUpvotes == 2
MaxInFlight == 2
RaceComments == 4
RaceUpvotes == 1
MaxIdeaUpvotes == 3
CeilingComments == 8
SwitchComments == 3
SwitchUpvotes == 1
LiveComments == 8
LiveUpvotes == 1

---------------------------------------------------------------------------
(* JavaScript values. *)

\* a numeric property read from an object that does not carry it
UNDEF == -1
\* a string property read from an object that does not carry it
UndefinedStr == "undefined"
\* selectedFragment === null
NoFragment == [id |-> 0]
\* selectedIdea === null
NoIdea == [id |-> -1]
\* rubricResult === null
NoResult == [none |-> TRUE]

NumField(data, name) == IF name \in DOMAIN data THEN data[name] ELSE UNDEF
StrField(data, name) == IF name \in DOMAIN data THEN data[name] ELSE UndefinedStr

\* x < n in JavaScript: false when x is undefined
JsLt(x, n) == x # UNDEF /\ x < n

\* text is a sequence of characters; " " stands for any white space
WhiteSpace == {" "}

RECURSIVE TrimStart(_)
TrimStart(s) == IF s # <<>> /\ Head(s) \in WhiteSpace THEN TrimStart(Tail(s)) ELSE s

RECURSIVE TrimEnd(_)
TrimEnd(s) ==
    IF s # <<>> /\ s[Len(s)] \in WhiteSpace THEN TrimEnd(SubSeq(s, 1, Len(s) - 1)) ELSE s

\* String.prototype.trim
trim(s) == TrimEnd(TrimStart(s))

\* the texts a user types into the comment box
ContentSamples == { <<>>, <<" ">>, <<" ", "a", " ">> }

---------------------------------------------------------------------------
(* ScoreCalculator (design section 4.1). *)

BuildingOnDelta == 15
CommentDelta == 5
UpvoteDelta == 2
MaxScore == 100
MaturingFloor == 40
ReadyFloor == 80

scoreForComment(building) == IF building THEN BuildingOnDelta ELSE CommentDelta

scoreForUpvote == UpvoteDelta

clampScoreNoCeiling(raw) == IF raw < 0 THEN 0 ELSE raw

clampScore(raw) == IF raw > MaxScore THEN MaxScore ELSE IF raw < 0 THEN 0 ELSE raw

(* FragmentLifecycle (design section 4.2). *)

statusForScore(score) ==
    IF score < MaturingFloor THEN "incubating"
    ELSE IF score < ReadyFloor THEN "maturing"
    ELSE "ready-to-promote"

\* once promoted the score mapping is never applied again
nextStatus(frag, score) ==
    IF frag.status = "promoted" THEN "promoted" ELSE statusForScore(score)

FreshFragment(i) ==
    [id |-> i, comments |-> <<>>, upvotes |-> 0, maturity_score |-> 0,
     status |-> "incubating", promoted_to_idea_id |-> 0]

IsBlank(content) == \A i \in 1..Len(content) : content[i] \in WhiteSpace

\* addComment: the outcome and the aggregate after it
engineAddComment(frag, content, building) ==
    IF IsBlank(content)
    THEN [error |-> "ValidationError", frag |-> frag]
    ELSE LET score == clampScore(frag.maturity_score + scoreForComment(building))
             comment == [id |-> Len(frag.comments) + 1, content |-> content,
                         is_building_on |-> building, upvotes |-> 0]
         IN [error |-> "",
             frag |-> [frag EXCEPT !.comments = Append(@, comment),
                                   !.maturity_score = score,
                                   !.status = nextStatus(frag, score)]]

\* an upvote whose delta is lost: the counter moves, the score does not
engineUpvoteLosesDelta(frag) ==
    IF frag.status = "promoted"
    THEN [error |-> "InvalidStateError", frag |-> frag]
    ELSE [error |-> "", frag |-> [frag EXCEPT !.upvotes = @ + 1]]

\* upvote
engineUpvote(frag) ==
    IF frag.status = "promoted"
    THEN [error |-> "InvalidStateError", frag |-> frag]
    ELSE LET score == clampScore(frag.maturity_score + scoreForUpvote)
         IN [error |-> "",
             frag |-> [frag EXCEPT !.upvotes = @ + 1,
                                   !.maturity_score = score,
                                   !.status = nextStatus(frag, score)]]

(* PromotionService (design section 4.3). *)

\* the quadrant of the default dimension scores (5 of 10 each) that a new
\* Idea is given
DefaultQuadrant == "Low Priority"

NewIdea(frag, records) ==
    [id |-> Len(records) + 1, fragment |-> frag.id, upvotes |-> 0,
     quadrant |-> DefaultQuadrant]

\* a promotion that does not look at the status
enginePromoteUnguarded(frag, records) ==
    IF frag.maturity_score < MaturingFloor
    THEN [error |-> "InsufficientMaturityError", frag |-> frag, ideas |-> records]
    ELSE LET idea == NewIdea(frag, records)
         IN [error |-> "",
             frag |-> [frag EXCEPT !.status = "promoted",
                                   !.promoted_to_idea_id = idea.id],
             ideas |-> Append(records, idea)]

\* a promotion that decides on a stale score: the one from before the last
\* comment
enginePromoteOnStaleScore(frag, records) ==
    LET n == Len(frag.comments)
        stale == IF n = 0 THEN frag.maturity_score
                 ELSE frag.maturity_score
                          - scoreForComment(frag.comments[n].is_building_on)
    IN IF frag.status = "promoted"
       THEN [error |-> "AlreadyPromotedError", frag |-> frag, ideas |-> records]
       ELSE IF stale < MaturingFloor
       THEN [error |-> "InsufficientMaturityError", frag |-> frag, ideas |-> records]
       ELSE LET idea == NewIdea(frag, records)
            IN [error |-> "",
                frag |-> [frag EXCEPT !.status = "promoted",
                                      !.promoted_to_idea_id = idea.id],
                ideas |-> Append(records, idea)]

\* promote: the outcome, the aggregate and the Idea records after it
enginePromote(frag, records) ==
    IF frag.status = "promoted"
    THEN [error |-> "AlreadyPromotedError", frag |-> frag, ideas |-> records]
    ELSE IF frag.maturity_score < MaturingFloor
    THEN [error |-> "InsufficientMaturityError", frag |-> frag, ideas |-> records]
    ELSE LET idea == NewIdea(frag, records)
         IN [error |-> "",
             frag |-> [frag EXCEPT !.status = "promoted",
                                   !.promoted_to_idea_id = idea.id],
             ideas |-> Append(records, idea)]

---------------------------------------------------------------------------
(* The client's requests.  A call is one run of an async handler of App.tsx *)
(* between its fetch and the state updates that follow the await.           *)

NoData == [pending |-> TRUE]

Call(op, fragId, stage) ==
    [op |-> op, fragId |-> fragId, ideaId |-> -1, stage |-> stage, content |-> <<>>,
     building |-> FALSE, noIdeaSelected |-> FALSE, data |-> NoData]

\* requests the client is still waiting for
CallsInFlight == Len(calls)

RECURSIVE SumOver(_, _)
SumOver(f, s) == IF s = {} THEN 0
                 ELSE LET x == CHOOSE y \in s : TRUE IN f[x] + SumOver(f, s \ {x})

\* comments stored or on their way to the backend, over all fragments
CommentsIssued ==
    SumOver([i \in 1..Len(srvFragments) |-> Len(srvFragments[i].comments)],
            1..Len(srvFragments))
    + Cardinality({i \in 1..Len(calls) :
                       calls[i].op = "addComment" /\ calls[i].stage = "post"})

UpvotesIssued ==
    SumOver([i \in 1..Len(srvFragments) |-> srvFragments[i].upvotes],
            1..Len(srvFragments))
    + Cardinality({i \in 1..Len(calls) :
                       calls[i].op = "upvote" /\ calls[i].stage = "post"})

RemoveAt(s, i) == SubSeq(s, 1, i - 1) \o SubSeq(s, i + 1, Len(s))

\* prev.map(f => f.id === fragmentId ? updatedFragment : f)
replaceFragment(list, fragId, updatedFragment) ==
    [k \in 1..Len(list) |-> IF list[k].id = fragId THEN updatedFragment ELSE list[k]]

DrawerOpen == selectedFragment # NoFragment /\ showFragmentDrawer

\* fragment.status.replace('-', ' ') in FragmentCard and in the drawer throws
\* a TypeError when status is undefined: the render fails and React unmounts
\* the tree, after which no gesture reaches a handler
renderThrows ==
    \/ \E k \in 1..Len(fragments) : fragments[k].status = UndefinedStr
    \/ DrawerOpen /\ selectedFragment.status = UndefinedStr

---------------------------------------------------------------------------
(* User gestures on the Idea Fragments view and in the fragment drawer. *)

\* FragmentCard onClick; the open drawer's backdrop covers the cards
SelectFragment(k) ==
    /\ ~renderThrows
    /\ ~DrawerOpen
    /\ k \in 1..Len(fragments)
    /\ selectedFragment' = fragments[k]
    /\ showFragmentDrawer' = TRUE
    /\ UNCHANGED <<srvFragments, srvIdeas, fragments, newFragmentComment, isBuildingOn,
                   ideas, selectedIdea, calls, rubricVars, navVars, upvotesSent, limits>>

\* backdrop or X button of the drawer
CloseFragmentDrawer ==
    /\ ~renderThrows
    /\ DrawerOpen
    /\ showFragmentDrawer' = FALSE
    /\ UNCHANGED <<srvFragments, srvIdeas, fragments, selectedFragment,
                   newFragmentComment, isBuildingOn, ideas, selectedIdea, calls,
                   rubricVars, navVars, upvotesSent, limits>>

\* textarea onChange
TypeFragmentComment(text) ==
    /\ ~renderThrows
    /\ DrawerOpen
    /\ text # newFragmentComment
    /\ newFragmentComment' = text
    /\ UNCHANGED <<srvFragments, srvIdeas, fragments, selectedFragment,
                   showFragmentDrawer, isBuildingOn, ideas, selectedIdea, calls,
                   rubricVars, navVars, upvotesSent, limits>>

\* checkbox onChange
ToggleBuildingOn ==
    /\ ~renderThrows
    /\ DrawerOpen
    /\ isBuildingOn' = ~isBuildingOn
    /\ UNCHANGED <<srvFragments, srvIdeas, fragments, selectedFragment,
                   showFragmentDrawer, newFragmentComment, ideas, selectedIdea, calls,
                   rubricVars, navVars, upvotesSent, limits>>

\* a test that forgets the trim
commentIsEmptyNoTrim(text) == text = <<>>

\* if (!newFragmentComment.trim()) return;
commentIsEmpty(text) == trim(text) = <<>>

\* a request that drops the checkbox
commentRequestNeverBuilding(fragId, content, building) ==
    [Call("addComment", fragId, "post") EXCEPT !.content = content,
                                               !.building = FALSE]

\* the POST of addFragmentComment: body { content, is_building_on }
commentRequest(fragId, content, building) ==
    [Call("addComment", fragId, "post") EXCEPT !.content = content,
                                               !.building = building]

\* handleAddFragmentComment up to the fetch of addFragmentComment
handleAddFragmentComment ==
    /\ ~renderThrows
    /\ DrawerOpen
    /\ CallsInFlight < limits.inflight
    /\ CommentsIssued < limits.comments
    /\ ~commentIsEmpty(newFragmentComment)
    /\ calls' = Append(calls, commentRequest(selectedFragment.id, newFragmentComment,
                                             isBuildingOn))
    /\ UNCHANGED <<srvFragments, srvIdeas, fragments, selectedFragment,
                   showFragmentDrawer, newFragmentComment, isBuildingOn, ideas,
                   selectedIdea, rubricVars, navVars, upvotesSent, limits>>

\* the upvote button of the drawer: upvoteFragment up to its fetch
upvoteFragment ==
    /\ ~renderThrows
    /\ DrawerOpen
    /\ CallsInFlight < limits.inflight
    /\ UpvotesIssued < limits.upvotes
    /\ calls' = Append(calls, Call("upvote", selectedFragment.id, "post"))
    /\ UNCHANGED <<srvFragments, srvIdeas, fragments, selectedFragment,
                   showFragmentDrawer, newFragmentComment, isBuildingOn, ideas,
                   selectedIdea, rubricVars, navVars, upvotesSent, limits>>

\* a drawer that offers promotion whatever the status
promoteButtonAlwaysShown(frag) == TRUE

\* the promote button is rendered when status !== 'promoted'
promoteButtonShown(frag) == frag.status # "promoted"

\* a drawer that never refuses
promoteRefusedNever(frag) == FALSE

\* a drawer that offers the early promotion only
promoteRefusedUnlessMaturing(frag) == frag.status # "maturing"

\* disabled={maturity_score < 40}, and the same test in handlePromote
promoteRefused(frag) == JsLt(frag.maturity_score, MaturingFloor)

\* handlePromote up to the fetch of promoteFragment
handlePromote ==
    /\ ~renderThrows
    /\ DrawerOpen
    /\ CallsInFlight < limits.inflight
    /\ promoteButtonShown(selectedFragment)
    /\ ~promoteRefused(selectedFragment)
    /\ calls' = Append(calls, Call("promote", selectedFragment.id, "post"))
    /\ UNCHANGED <<srvFragments, srvIdeas, fragments, selectedFragment,
                   showFragmentDrawer, newFragmentComment, isBuildingOn, ideas,
                   selectedIdea, rubricVars, navVars, upvotesSent, limits>>

---------------------------------------------------------------------------
(* The backend serving the client's requests. *)

\* the JSON body of a failed request (FastAPI: {"detail": ...})
ErrorBody(error) == [detail |-> error]

\* POST /fragments/{id}/comments
ServeAddComment(i) ==
    /\ calls[i].op = "addComment" /\ calls[i].stage = "post"
    /\ LET c == calls[i]
           r == engineAddComment(srvFragments[c.fragId], c.content, c.building)
       IN /\ srvFragments' = [srvFragments EXCEPT ![c.fragId] = r.frag]
          /\ calls' = [calls EXCEPT ![i].stage = "get"]
    /\ UNCHANGED <<srvIdeas, fragments, selectedFragment, showFragmentDrawer,
                   newFragmentComment, isBuildingOn, ideas, selectedIdea, rubricVars,
                   navVars, upvotesSent, limits>>

\* GET /fragments/{id}, the refresh that follows the comment
ServeGetFragment(i) ==
    /\ calls[i].op = "addComment" /\ calls[i].stage = "get"
    /\ calls' = [calls EXCEPT ![i].stage = "done",
                              ![i].data = srvFragments[calls[i].fragId]]
    /\ UNCHANGED <<srvFragments, srvIdeas, fragments, selectedFragment,
                   showFragmentDrawer, newFragmentComment, isBuildingOn, ideas,
                   selectedIdea, rubricVars, navVars, upvotesSent, limits>>

\* POST /fragments/{id}/upvote
ServeUpvote(i) ==
    /\ calls[i].op = "upvote" /\ calls[i].stage = "post"
    /\ LET c == calls[i]
           r == engineUpvote(srvFragments[c.fragId])
           body == IF r.error = ""
                   THEN [upvotes |-> r.frag.upvotes,
                         maturity_score |-> r.frag.maturity_score,
                         status |-> r.frag.status]
                   ELSE ErrorBody(r.error)
       IN /\ srvFragments' = [srvFragments EXCEPT ![c.fragId] = r.frag]
          /\ calls' = [calls EXCEPT ![i].stage = "done", ![i].data = body]
    /\ UNCHANGED <<srvIdeas, fragments, selectedFragment, showFragmentDrawer,
                   newFragmentComment, isBuildingOn, ideas, selectedIdea, rubricVars,
                   navVars, upvotesSent, limits>>

\* POST /fragments/{id}/promote
ServePromote(i) ==
    /\ calls[i].op = "promote" /\ calls[i].stage = "post"
    /\ LET c == calls[i]
           r == enginePromote(srvFragments[c.fragId], srvIdeas)
           body == IF r.error = ""
                   THEN [idea_id |-> r.frag.promoted_to_idea_id]
                   ELSE ErrorBody(r.error)
       IN /\ srvFragments' = [srvFragments EXCEPT ![c.fragId] = r.frag]
          /\ srvIdeas' = r.ideas
          /\ calls' = [calls EXCEPT ![i].stage = "done", ![i].data = body]
    /\ UNCHANGED <<fragments, selectedFragment, showFragmentDrawer, newFragmentComment,
                   isBuildingOn, ideas, selectedIdea, rubricVars, navVars,
                   upvotesSent, limits>>

\* GET /fragments
ServeFetchFragments(i) ==
    /\ calls[i].op = "fetchFragments" /\ calls[i].stage = "get"
    /\ calls' = [calls EXCEPT ![i].stage = "done",
                              ![i].data = [fragments |-> srvFragments]]
    /\ UNCHANGED <<srvFragments, srvIdeas, fragments, selectedFragment,
                   showFragmentDrawer, newFragmentComment, isBuildingOn, ideas,
                   selectedIdea, rubricVars, navVars, upvotesSent, limits>>

\* GET /ideas
ServeFetchIdeas(i) ==
    /\ calls[i].op = "fetchIdeas" /\ calls[i].stage = "get"
    /\ calls' = [calls EXCEPT ![i].stage = "done", ![i].data = [ideas |-> srvIdeas]]
    /\ UNCHANGED <<srvFragments, srvIdeas, fragments, selectedFragment,
                   showFragmentDrawer, newFragmentComment, isBuildingOn, ideas,
                   selectedIdea, rubricVars, navVars, upvotesSent, limits>>

(* Other members of the community reach the same aggregates through the   *)
(* backend's inbound interface (design section 6), past this client.      *)

ApiAddComment(f, content, building) ==
    /\ f \in 1..Len(srvFragments)
    /\ CommentsIssued < limits.comments
    /\ srvFragments' = [srvFragments EXCEPT
                            ![f] = engineAddComment(@, content, building).frag]
    /\ UNCHANGED <<srvIdeas, fragments, selectedFragment, showFragmentDrawer,
                   newFragmentComment, isBuildingOn, ideas, selectedIdea, calls,
                   rubricVars, navVars, upvotesSent, limits>>

ApiUpvote(f) ==
    /\ f \in 1..Len(srvFragments)
    /\ UpvotesIssued < limits.upvotes
    /\ srvFragments' = [srvFragments EXCEPT ![f] = engineUpvote(@).frag]
    /\ UNCHANGED <<srvIdeas, fragments, selectedFragment, showFragmentDrawer,
                   newFragmentComment, isBuildingOn, ideas, selectedIdea, calls,
                   rubricVars, navVars, upvotesSent, limits>>

ApiPromote(f) ==
    /\ f \in 1..Len(srvFragments)
    /\ LET r == enginePromote(srvFragments[f], srvIdeas)
       IN /\ srvFragments' = [srvFragments EXCEPT ![f] = r.frag]
          /\ srvIdeas' = r.ideas
    /\ UNCHANGED <<fragments, selectedFragment, showFragmentDrawer, newFragmentComment,
                   isBuildingOn, ideas, selectedIdea, calls, rubricVars, navVars,
                   upvotesSent, limits>>

---------------------------------------------------------------------------
(* The client after the await: the state updates of each handler. *)

\* addFragmentComment after the refresh, then the rest of
\* handleAddFragmentComment
AddCommentDone(i) ==
    /\ calls[i].op = "addComment" /\ calls[i].stage = "done"
    /\ LET updatedFragment == calls[i].data
       IN /\ selectedFragment' = updatedFragment
          /\ fragments' = replaceFragment(fragments, calls[i].fragId, updatedFragment)
    /\ newFragmentComment' = <<>>
    /\ isBuildingOn' = FALSE
    /\ calls' = RemoveAt(calls, i)
    /\ UNCHANGED <<srvFragments, srvIdeas, showFragmentDrawer, ideas, selectedIdea,
                   rubricVars, navVars, upvotesSent, limits>>

\* a patch that takes the score from the wrong field of the response
patchFragmentScoreFromUpvotes(f, data) ==
    [f EXCEPT !.upvotes = NumField(data, "upvotes"),
              !.maturity_score = NumField(data, "upvotes"),
              !.status = StrField(data, "status")]

\* a patch that resets the status instead of taking the answer's
patchFragmentResetsStatus(f, data) ==
    [f EXCEPT !.upvotes = NumField(data, "upvotes"),
              !.maturity_score = NumField(data, "maturity_score"),
              !.status = "incubating"]

\* a patch that takes no more upvotes once the score is full
patchFragmentFullIsFinal(f, data) ==
    [f EXCEPT !.upvotes = IF NumField(data, "maturity_score") = MaxScore
                          THEN f.upvotes ELSE NumField(data, "upvotes"),
              !.maturity_score = NumField(data, "maturity_score"),
              !.status = StrField(data, "status")]

\* { ...f, upvotes: data.upvotes, maturity_score: data.maturity_score,
\*   status: data.status }
patchFragment(f, data) ==
    [f EXCEPT !.upvotes = NumField(data, "upvotes"),
              !.maturity_score = NumField(data, "maturity_score"),
              !.status = StrField(data, "status")]

\* prev.map(f => f.id === fragmentId ? { ...f, ... } : f)
patchFragments(list, fragId, data) ==
    [k \in 1..Len(list) |->
        IF list[k].id = fragId THEN patchFragment(list[k], data) ELSE list[k]]

\* upvoteFragment after the await
UpvoteDone(i) ==
    /\ calls[i].op = "upvote" /\ calls[i].stage = "done"
    /\ LET data == calls[i].data
       IN /\ fragments' = patchFragments(fragments, calls[i].fragId, data)
          /\ selectedFragment' = IF selectedFragment # NoFragment
                                 THEN patchFragment(selectedFragment, data)
                                 ELSE NoFragment
    /\ calls' = RemoveAt(calls, i)
    /\ UNCHANGED <<srvFragments, srvIdeas, showFragmentDrawer, newFragmentComment,
                   isBuildingOn, ideas, selectedIdea, rubricVars, navVars,
                   upvotesSent, limits>>

\* promoteFragment after the await: fetchFragments(); fetchIdeas();
\* setShowFragmentDrawer(false); alert(...)
PromoteDone(i) ==
    /\ calls[i].op = "promote" /\ calls[i].stage = "done"
    /\ calls' = RemoveAt(calls, i)
                \o << Call("fetchFragments", 0, "get"),
                      [Call("fetchIdeas", 0, "get")
                           EXCEPT !.noIdeaSelected = (selectedIdea = NoIdea)] >>
    /\ showFragmentDrawer' = FALSE
    /\ UNCHANGED <<srvFragments, srvIdeas, fragments, selectedFragment,
                   newFragmentComment, isBuildingOn, ideas, selectedIdea, rubricVars,
                   navVars, upvotesSent, limits>>

\* a refresh of the list that drops the comments of the fragments it lists
FetchFragmentsDoneDropsComments(i) ==
    /\ calls[i].op = "fetchFragments" /\ calls[i].stage = "done"
    /\ fragments' = [k \in 1..Len(calls[i].data.fragments) |->
                        [calls[i].data.fragments[k] EXCEPT !.comments = <<>>]]
    /\ calls' = RemoveAt(calls, i)
    /\ UNCHANGED <<srvFragments, srvIdeas, selectedFragment, showFragmentDrawer,
                   newFragmentComment, isBuildingOn, ideas, selectedIdea, rubricVars,
                   navVars, upvotesSent, limits>>

\* fetchFragments after the await
FetchFragmentsDone(i) ==
    /\ calls[i].op = "fetchFragments" /\ calls[i].stage = "done"
    /\ fragments' = calls[i].data.fragments
    /\ calls' = RemoveAt(calls, i)
    /\ UNCHANGED <<srvFragments, srvIdeas, selectedFragment, showFragmentDrawer,
                   newFragmentComment, isBuildingOn, ideas, selectedIdea, rubricVars,
                   navVars, upvotesSent, limits>>

\* SARAH_DEMO_IDEA as fetchIdeas lists it
DemoUpvotes == 23
DemoQuadrant == "Quick Win"
sarahIdeaForList ==
    [id |-> 0, fragment |-> 0, upvotes |-> DemoUpvotes, quadrant |-> DemoQuadrant]

\* fetchIdeas after the await
FetchIdeasDone(i) ==
    /\ calls[i].op = "fetchIdeas" /\ calls[i].stage = "done"
    /\ LET allIdeas == <<sarahIdeaForList>> \o calls[i].data.ideas
       IN /\ ideas' = allIdeas
          /\ selectedIdea' = IF Len(allIdeas) > 0 /\ calls[i].noIdeaSelected
                             THEN allIdeas[1] ELSE selectedIdea
    /\ calls' = RemoveAt(calls, i)
    /\ UNCHANGED <<srvFragments, srvIdeas, fragments, selectedFragment,
                   showFragmentDrawer, newFragmentComment, isBuildingOn, rubricVars,
                   navVars, upvotesSent, limits>>

---------------------------------------------------------------------------
(* JavaScript numbers.  The rubric arithmetic is IEEE-754 double precision: *)
(* a double x >= 0 below 16 is held exactly as the natural number x * 2^56, *)
(* written in three limbs <<h, m, l>> of 20 bits (h * 2^40 + m * 2^20 + l). *)

Limb == 2^20

Norm(h, m, l) ==
    LET m1 == m + (l \div Limb)
    IN << h + (m1 \div Limb), m1 % Limb, l % Limb >>

NatZero == <<0, 0, 0>>

NatGe(x, y) ==
    \/ x[1] > y[1]
    \/ x[1] = y[1] /\ x[2] > y[2]
    \/ x[1] = y[1] /\ x[2] = y[2] /\ x[3] >= y[3]

NatAdd(x, y) == Norm(x[1] + y[1], x[2] + y[2], x[3] + y[3])

\* x - y for x >= y
NatSub(x, y) ==
    LET l == x[3] - y[3]
        bl == IF l < 0 THEN 1 ELSE 0
        m == x[2] - y[2] - bl
        bm == IF m < 0 THEN 1 ELSE 0
    IN << x[1] - y[1] - bm, m + bm * Limb, l + bl * Limb >>

\* k * x for a small natural k
NatMul(k, x) == Norm(k * x[1], k * x[2], k * x[3])

\* the spacing of the doubles around x, in units of 2^-56: 53 significant bits
RECURSIVE UlpFrom(_, _)
UlpFrom(h, u) == IF h < (2^13) * u THEN u ELSE UlpFrom(h, 2 * u)
Ulp(x) == UlpFrom(x[1], 1)

\* round to nearest, ties to even; sticky: the exact value lies above x
RoundToDouble(x, sticky) ==
    LET u == Ulp(x)
        r == x[3] % u
        down == << x[1], x[2], x[3] - r >>
        up == Norm(x[1], x[2], x[3] - r + u)
        odd == ((x[3] \div u) % 2) = 1
    IN IF r = 0 /\ ~sticky THEN x
       ELSE IF 2 * r < u THEN down
       ELSE IF 2 * r > u \/ sticky THEN up
       ELSE IF odd THEN up ELSE down

\* the double k * w for an integer k and a double w
FMul(k, w) == RoundToDouble(NatMul(k, w), FALSE)

\* the double x + y
FAdd(x, y) == RoundToDouble(NatAdd(x, y), FALSE)

\* floor(x / d) for x < 256 * d and d >= 2^49: the quotient of the leading
\* limbs is off by at most one
Digit(x, d) ==
    LET est == x[1] \div d[1]
    IN IF NatGe(x, NatMul(est + 1, d)) THEN est + 1
       ELSE IF NatGe(x, NatMul(est, d)) THEN est
       ELSE est - 1

\* digit * 2^p in units of 2^-56, for digit < 256 and p < 56
Shift(digit, p) ==
    IF p < 20 THEN Norm(0, 0, digit * (2^p))
    ELSE IF p < 40 THEN Norm(0, digit * (2^(p - 20)), 0)
    ELSE << digit * (2^(p - 40)), 0, 0 >>

\* the first 8 * n binary places of rem / d for rem < d, and what is left over
RECURSIVE DivFrac(_, _, _)
DivFrac(rem, d, n) ==
    IF n = 0 THEN << NatZero, rem >>
    ELSE LET scaled == NatMul(256, rem)
             digit == Digit(scaled, d)
             rest == DivFrac(NatSub(scaled, NatMul(digit, d)), d, n - 1)
         IN << NatAdd(Shift(digit, 8 * (n - 1)), rest[1]), rest[2] >>

\* the double of an integer n < 16
FInt(n) == << n * (2^16), 0, 0 >>

\* the double x / d, for a quotient between 1 and 15: the quotient to 56
\* binary places, then rounded
FDiv(x, d) ==
    LET whole == Digit(x, d)
        frac == DivFrac(NatSub(x, NatMul(whole, d)), d, 7)
    IN RoundToDouble(NatAdd(FInt(whole), frac[1]), frac[2] # NatZero)

\* the double of n / 2 for an integer n < 32
FHalves(n) == << n * (2^15), 0, 0 >>

\* Number.prototype.toFixed(1), as a number of tenths: floor(10 * x + 1/2)
toFixed1(x) ==
    LET t == NatMul(10, x)
    IN (t[1] + 2^15) \div (2^16)

\* the doubles nearest to the weights written in calculateRubricQuadrant
D010 == << 6553, 629145, 629146 >>
D015 == << 9830, 419430, 419430 >>
D020 == << 13107, 209715, 209716 >>
D025 == << 16384, 0, 0 >>
D045 == << 29491, 209715, 209716 >>
D055 == << 36044, 838860, 838864 >>

---------------------------------------------------------------------------
(* RubricClassifier: calculateRubricQuadrant. *)

Dimensions == {"emotional_needs", "drastic_change", "revenue_impact",
               "pilot_complexity", "people_build", "technology_capex"}

ValueDimensions == {"emotional_needs", "revenue_impact"}
EffortDimensions == Dimensions \ ValueDimensions

\* Object.entries(valueWeights), Object.entries(effortWeights)
valueWeights == << [k |-> "emotional_needs", w |-> D020],
                   [k |-> "revenue_impact", w |-> D025] >>
effortWeights == << [k |-> "drastic_change", w |-> D015],
                    [k |-> "pilot_complexity", w |-> D015],
                    [k |-> "people_build", w |-> D010],
                    [k |-> "technology_capex", w |-> D015] >>

DefaultDimension == 5

\* rubricScores[k] || 5
scoreOrDefault(scores, k) ==
    IF k \notin DOMAIN scores \/ scores[k] = 0 \/ scores[k] = UNDEF
    THEN DefaultDimension ELSE scores[k]

\* entries.reduce((sum, [k, w]) => sum + (rubricScores[k] || 5) * w, 0)
RECURSIVE weightedSum(_, _, _)
weightedSum(scores, entries, sum) ==
    IF entries = <<>> THEN sum
    ELSE weightedSum(scores, Tail(entries),
                     FAdd(sum, FMul(scoreOrDefault(scores, Head(entries).k),
                                    Head(entries).w)))

\* a value score without the division that brings it back onto 1..10
valueScoreNotNormalized(scores) == weightedSum(scores, valueWeights, NatZero)

valueScoreOf(scores) == FDiv(weightedSum(scores, valueWeights, NatZero), D045)
effortScoreOf(scores) == FDiv(weightedSum(scores, effortWeights, NatZero), D055)

\* valueScore >= 6.5
highValueOf(valueScore) == NatGe(valueScore, FHalves(13))
\* effortScore >= 6.0
highEffortOf(effortScore) == NatGe(effortScore, FInt(6))

quadrantOf(highValue, highEffort) ==
    IF highValue /\ ~highEffort THEN "Quick Wins"
    ELSE IF highValue /\ highEffort THEN "Big Bets"
    ELSE IF ~highValue /\ highEffort THEN "Parking Lot"
    ELSE "Low Priority"

\* a classifier that lets the advisor's answer speak: with a result of the
\* advisor at hand every idea is a quick win
calculateRubricQuadrantWithAdvisor(scores) ==
    LET valueScore == valueScoreOf(scores)
        effortScore == effortScoreOf(scores)
    IN [valueScore |-> toFixed1(valueScore),
        effortScore |-> toFixed1(effortScore),
        quadrant |-> IF rubricResult # NoResult THEN "Quick Wins"
                     ELSE quadrantOf(highValueOf(valueScore), highEffortOf(effortScore))]

calculateRubricQuadrant(scores) ==
    LET valueScore == valueScoreOf(scores)
        effortScore == effortScoreOf(scores)
    IN [valueScore |-> toFixed1(valueScore),
        effortScore |-> toFixed1(effortScore),
        quadrant |-> quadrantOf(highValueOf(valueScore), highEffortOf(effortScore))]

\* the positions the sliders are moved to (type="range" min="1" max="10"),
\* and the fewer positions of the runs that consult the advisor
SliderStops == {5, 6, 7, 10}
AdvisorStops == {5, 6}
RangeStops == {1, 10}

\* the dimension scores the drawer shows and classifies for an idea:
\* rubricScores[dim.key], whichever idea is selected
rubricScoresOf(idea) == rubricScores

\* IdeaCard onClick: setSelectedIdea(idea); setShowIdeaDrawer(true)
OpenIdeaDrawer(k) ==
    /\ ~renderThrows
    /\ ~showIdeaDrawer /\ ~DrawerOpen
    /\ k \in 1..Len(ideas)
    /\ selectedIdea' = ideas[k]
    /\ showIdeaDrawer' = TRUE
    /\ hasUpvoted' = FALSE
    /\ upvotesSent' = 0
    /\ UNCHANGED <<srvFragments, srvIdeas, fragments, selectedFragment,
                   showFragmentDrawer, newFragmentComment, isBuildingOn, ideas, calls,
                   rubricScores, advisorVars, navVars, limits>>

\* backdrop or X button of the idea drawer
CloseIdeaDrawer ==
    /\ ~renderThrows
    /\ showIdeaDrawer
    /\ showIdeaDrawer' = FALSE
    /\ UNCHANGED <<srvFragments, srvIdeas, fragments, selectedFragment,
                   showFragmentDrawer, newFragmentComment, isBuildingOn, ideas,
                   selectedIdea, calls, rubricScores, advisorVars, hasUpvoted, navVars,
                   upvotesSent, limits>>

\* slider onChange: setRubricScores({...rubricScores, [dim.key]: parseInt(value)})
SetRubricScore(k, v) ==
    /\ ~renderThrows
    /\ showIdeaDrawer
    /\ v \in limits.stops
    /\ v # NumField(rubricScores, k)
    /\ rubricScores' = [d \in DOMAIN rubricScores \cup {k} |->
                            IF d = k THEN v ELSE rubricScores[d]]
    /\ UNCHANGED <<srvFragments, srvIdeas, fragments, selectedFragment,
                   showFragmentDrawer, newFragmentComment, isBuildingOn, ideas,
                   selectedIdea, calls, showIdeaDrawer, advisorVars, hasUpvoted,
                   navVars, upvotesSent, limits>>

---------------------------------------------------------------------------
(* The rubric advisor: fetchAIRubric and the answers it may get. *)

\* a value of ai_scores that is null
NullValue == [null |-> TRUE]

\* ai_scores with the same proposal { score } for the keys given
Proposal(keys, e, r, x) ==
    [k \in keys |-> [score |-> IF k = "emotional_needs" THEN e
                               ELSE IF k = "revenue_impact" THEN r ELSE x]]

\* the bodies the advisor answers with: an error, six scores in range, six
\* scores of which one is 0 and one above 10, two scores only, and six values
\* of which one is null
AdvisorReplies ==
    { [detail |-> "advisor unavailable"],
      [ai_scores |-> Proposal(Dimensions, 6, 6, 5), codex_powered |-> TRUE],
      [ai_scores |-> Proposal(Dimensions, 0, 11, 6), codex_powered |-> TRUE],
      [ai_scores |-> Proposal(ValueDimensions, 6, 6, 0), codex_powered |-> TRUE],
      [ai_scores |-> [Proposal(Dimensions, 6, 6, 6) EXCEPT !["people_build"] = NullValue],
       codex_powered |-> TRUE] }

\* fetch rejects: the advisor cannot be reached
NetworkError == [rejected |-> TRUE]

\* the AI Recommend button: fetchAIRubric up to its fetch
fetchAIRubric ==
    /\ ~renderThrows
    /\ showIdeaDrawer /\ selectedIdea # NoIdea
    /\ ~rubricLoading
    /\ rubricLoading' = TRUE
    /\ calls' = Append(calls, [Call("aiRecommend", 0, "post")
                                  EXCEPT !.ideaId = selectedIdea.id])
    /\ UNCHANGED <<srvFragments, srvIdeas, fragments, selectedFragment,
                   showFragmentDrawer, newFragmentComment, isBuildingOn, ideas,
                   selectedIdea, showIdeaDrawer, rubricScores, rubricResult,
                   hasUpvoted, navVars, upvotesSent, limits>>

\* POST /rubric/{id}/ai-recommend is answered, or fails
ServeAIRecommend(i, reply) ==
    /\ calls[i].op = "aiRecommend" /\ calls[i].stage = "post"
    /\ calls' = [calls EXCEPT ![i].stage = "done", ![i].data = reply]
    /\ UNCHANGED <<srvFragments, srvIdeas, fragments, selectedFragment,
                   showFragmentDrawer, newFragmentComment, isBuildingOn, ideas,
                   selectedIdea, rubricVars, navVars, upvotesSent, limits>>

\* val.score || 5
scoreOrFive(val) ==
    IF NumField(val, "score") \in {0, UNDEF} THEN DefaultDimension ELSE val.score

\* Object.entries(data.ai_scores).forEach(([key, val]) => newScores[key] = ...)
newScoresOf(ai_scores) == [key \in DOMAIN ai_scores |-> scoreOrFive(ai_scores[key])]

\* the try block of fetchAIRubric throws: fetch rejected, or val is null
aiRubricThrows(data) ==
    \/ data = NetworkError
    \/ /\ "ai_scores" \in DOMAIN data
       /\ \E key \in DOMAIN data.ai_scores : data.ai_scores[key] = NullValue

\* fetchAIRubric after the await
AIRecommendDone(i) ==
    /\ calls[i].op = "aiRecommend" /\ calls[i].stage = "done"
    /\ LET data == calls[i].data
       IN IF aiRubricThrows(data)
          THEN UNCHANGED <<rubricScores, rubricResult>>
          ELSE /\ rubricScores' = IF "ai_scores" \in DOMAIN data
                                  THEN newScoresOf(data.ai_scores) ELSE rubricScores
               /\ rubricResult' = data
    /\ rubricLoading' = FALSE
    /\ calls' = RemoveAt(calls, i)
    /\ UNCHANGED <<srvFragments, srvIdeas, fragments, selectedFragment,
                   showFragmentDrawer, newFragmentComment, isBuildingOn, ideas,
                   selectedIdea, showIdeaDrawer, hasUpvoted, navVars, upvotesSent, limits>>

---------------------------------------------------------------------------
(* Upvotes of ideas: the upvote button of the idea drawer and the          *)
(* IdeaEngagementTracker (design section 4.5).                             *)

\* upvotes stored on the Idea records or on their way to the backend
IdeaUpvotesIssued ==
    SumOver([i \in 1..Len(srvIdeas) |-> srvIdeas[i].upvotes], 1..Len(srvIdeas))
    + Cardinality({i \in 1..Len(calls) :
                       calls[i].op = "upvoteIdea" /\ calls[i].stage = "post"})

\* pipeline card onClick: setSelectedIdea(idea); setShowIdeaDrawer(true)
OpenIdeaFromPipeline(k) ==
    /\ ~renderThrows
    /\ ~showIdeaDrawer /\ ~DrawerOpen
    /\ k \in 1..Len(ideas)
    /\ selectedIdea' = ideas[k]
    /\ showIdeaDrawer' = TRUE
    /\ upvotesSent' = 0
    /\ UNCHANGED <<srvFragments, srvIdeas, fragments, selectedFragment,
                   showFragmentDrawer, newFragmentComment, isBuildingOn, ideas, calls,
                   rubricScores, advisorVars, hasUpvoted, navVars, limits>>

\* {selectedIdea.upvotes + (hasUpvoted ? 1 : 0)}
displayedUpvotes == selectedIdea.upvotes + (IF hasUpvoted THEN 1 ELSE 0)

\* handleUpvote of the idea drawer, up to the await; the button is disabled
\* while hasUpvoted
handleUpvote ==
    /\ ~renderThrows
    /\ showIdeaDrawer /\ selectedIdea # NoIdea
    /\ ~hasUpvoted
    /\ CallsInFlight < limits.inflight
    /\ IdeaUpvotesIssued < limits.ideaUpvotes
    /\ upvotesSent < limits.ideaUpvotes
    /\ calls' = Append(calls, [Call("upvoteIdea", 0, "post")
                                   EXCEPT !.ideaId = selectedIdea.id])
    /\ upvotesSent' = upvotesSent + 1
    /\ UNCHANGED <<srvFragments, srvIdeas, fragments, selectedFragment,
                   showFragmentDrawer, newFragmentComment, isBuildingOn, ideas,
                   selectedIdea, rubricVars, navVars, limits>>

\* upvoteIdea: the counter of the Idea increments per call
engineUpvoteIdea(idea) == [idea EXCEPT !.upvotes = @ + 1]

\* POST /ideas/{id}/upvote; an id the backend holds no Idea for is answered
\* with an error body and changes nothing
ServeUpvoteIdea(i) ==
    /\ calls[i].op = "upvoteIdea" /\ calls[i].stage = "post"
    /\ IF \E k \in 1..Len(srvIdeas) : srvIdeas[k].id = calls[i].ideaId
       THEN LET k == CHOOSE j \in 1..Len(srvIdeas) : srvIdeas[j].id = calls[i].ideaId
            IN /\ srvIdeas' = [srvIdeas EXCEPT ![k] = engineUpvoteIdea(@)]
               /\ calls' = [calls EXCEPT ![i].stage = "done",
                                         ![i].data = engineUpvoteIdea(srvIdeas[k])]
       ELSE /\ calls' = [calls EXCEPT ![i].stage = "done",
                                      ![i].data = ErrorBody("NotFoundError")]
            /\ UNCHANGED srvIdeas
    /\ UNCHANGED <<srvFragments, fragments, selectedFragment, showFragmentDrawer,
                   newFragmentComment, isBuildingOn, ideas, selectedIdea, rubricVars,
                   navVars, upvotesSent, limits>>

\* the fetch is rejected (the network is down): handleUpvote logs the error
UpvoteIdeaRejected(i) ==
    /\ calls[i].op = "upvoteIdea" /\ calls[i].stage = "post"
    /\ calls' = RemoveAt(calls, i)
    /\ UNCHANGED <<srvFragments, srvIdeas, fragments, selectedFragment,
                   showFragmentDrawer, newFragmentComment, isBuildingOn, ideas,
                   selectedIdea, rubricVars, navVars, upvotesSent, limits>>

\* handleUpvote after the await: setHasUpvoted(true); fetchIdeas()
UpvoteIdeaDone(i) ==
    /\ calls[i].op = "upvoteIdea" /\ calls[i].stage = "done"
    /\ hasUpvoted' = TRUE
    /\ calls' = RemoveAt(calls, i)
                \o << [Call("fetchIdeas", 0, "get")
                           EXCEPT !.noIdeaSelected = (selectedIdea = NoIdea)] >>
    /\ UNCHANGED <<srvFragments, srvIdeas, fragments, selectedFragment,
                   showFragmentDrawer, newFragmentComment, isBuildingOn, ideas,
                   selectedIdea, showIdeaDrawer, rubricScores, advisorVars, navVars,
                   upvotesSent, limits>>

\* another member upvotes an Idea through the backend's inbound interface
ApiUpvoteIdea(k) ==
    /\ k \in 1..Len(srvIdeas)
    /\ IdeaUpvotesIssued < limits.ideaUpvotes
    /\ srvIdeas' = [srvIdeas EXCEPT ![k] = engineUpvoteIdea(@)]
    /\ UNCHANGED <<srvFragments, fragments, selectedFragment, showFragmentDrawer,
                   newFragmentComment, isBuildingOn, ideas, selectedIdea, calls,
                   rubricVars, navVars, upvotesSent, limits>>

---------------------------------------------------------------------------
(* Navigation: the sidebar, the persona menu of the header and the buttons *)
(* inside the pages that change the view.                                  *)

Personas == {"executive", "innovator"}

\* navItems of Sidebar, before the filter
navItems ==
    << [id |-> "dashboard", personas |-> {"executive", "innovator"}],
       [id |-> "pipeline", personas |-> {"executive"}],
       [id |-> "fragments", personas |-> {"innovator"}],
       [id |-> "ideas", personas |-> {"executive", "innovator"}],
       [id |-> "challenges", personas |-> {"executive", "innovator"}],
       [id |-> "value-tracker", personas |-> {"executive"}],
       [id |-> "analytics", personas |-> {"executive"}],
       [id |-> "leaderboard", personas |-> {"innovator"}],
       [id |-> "rewards", personas |-> {"innovator"}],
       [id |-> "events", personas |-> {"executive", "innovator"}],
       [id |-> "bulk-import", personas |-> {"executive"}],
       [id |-> "timeline", personas |-> {"executive"}],
       [id |-> "resources", personas |-> {"innovator"}],
       [id |-> "settings", personas |-> {"executive", "innovator"}] >>

\* .filter(item => item.personas.includes(persona)), as the set of ids
navItemsFor(p) ==
    {navItems[k].id : k \in {j \in 1..Len(navItems) : p \in navItems[j].personas}}

\* a drawer covers the page: no gesture reaches the sidebar or the header
PageReachable == ~renderThrows /\ ~showIdeaDrawer /\ ~showFragmentDrawer

\* sidebar button onClick: setCurrentView(item.id)
SidebarClick(item) ==
    /\ PageReachable
    /\ item \in navItemsFor(persona)
    /\ currentView' = item
    /\ UNCHANGED <<srvFragments, srvIdeas, fragments, selectedFragment,
                   showFragmentDrawer, newFragmentComment, isBuildingOn, ideas,
                   selectedIdea, calls, rubricVars, persona, upvotesSent, limits>>

\* handlePersonaChange, from the persona menu of the header
handlePersonaChange(newPersona) ==
    /\ PageReachable
    /\ persona' = newPersona
    /\ currentView' = "dashboard"
    /\ UNCHANGED <<srvFragments, srvIdeas, fragments, selectedFragment,
                   showFragmentDrawer, newFragmentComment, isBuildingOn, ideas,
                   selectedIdea, calls, rubricVars, upvotesSent, limits>>

\* the quadrant tiles and "View All" of the dashboard: setCurrentView('ideas')
DashboardToIdeas ==
    /\ PageReachable
    /\ currentView = "dashboard"
    /\ currentView' = "ideas"
    /\ UNCHANGED <<srvFragments, srvIdeas, fragments, selectedFragment,
                   showFragmentDrawer, newFragmentComment, isBuildingOn, ideas,
                   selectedIdea, calls, rubricVars, persona, upvotesSent, limits>>

\* the idea cards are on the dashboard and on the ideas page
IdeaCardsShown == currentView \in {"dashboard", "ideas"}

\* "Individual Agents" of the idea drawer: setSelectedIdea(selectedIdea);
\* setShowIdeaDrawer(false); setCurrentView('agents')
ShowIndividualAgents ==
    /\ ~renderThrows
    /\ showIdeaDrawer /\ selectedIdea # NoIdea
    /\ showIdeaDrawer' = FALSE
    /\ currentView' = "agents"
    /\ UNCHANGED <<srvFragments, srvIdeas, fragments, selectedFragment,
                   showFragmentDrawer, newFragmentComment, isBuildingOn, ideas,
                   selectedIdea, calls, rubricScores, advisorVars, hasUpvoted, persona,
                   upvotesSent, limits>>

---------------------------------------------------------------------------
(* The specification of the fragment lifecycle: one fresh fragment and a   *)
(* user who waits for each answer before the next request.                 *)

InitialRubricScores == [d \in Dimensions |-> DefaultDimension]

\* the state after the first render: useEffect has called fetchIdeas and
\* fetchFragments
InitClient ==
    /\ fragments = <<>>
    /\ selectedFragment = NoFragment
    /\ showFragmentDrawer = FALSE
    /\ newFragmentComment = <<>>
    /\ isBuildingOn = FALSE
    /\ ideas = <<>>
    /\ selectedIdea = NoIdea
    /\ calls = << [Call("fetchIdeas", 0, "get") EXCEPT !.noIdeaSelected = TRUE],
                  Call("fetchFragments", 0, "get") >>
    /\ rubricScores = InitialRubricScores
    /\ showIdeaDrawer = FALSE
    /\ rubricLoading = FALSE
    /\ rubricResult = NoResult
    /\ hasUpvoted = FALSE
    /\ currentView = "dashboard"
    /\ persona = "innovator"
    /\ upvotesSent = 0

Init ==
    /\ InitClient
    /\ srvFragments = << FreshFragment(1) >>
    /\ srvIdeas = <<>>
    /\ limits = [comments |-> MaxComments, upvotes |-> MaxUpvotes, inflight |-> 1,
                 stops |-> {}, ideaUpvotes |-> 0]

Next ==
    \/ \E k \in 1..Len(fragments) : SelectFragment(k)
    \/ CloseFragmentDrawer
    \/ \E text \in ContentSamples : TypeFragmentComment(text)
    \/ ToggleBuildingOn
    \/ handleAddFragmentComment
    \/ upvoteFragment
    \/ handlePromote
    \/ \E i \in 1..Len(calls) : ServeAddComment(i)
    \/ \E i \in 1..Len(calls) : ServeGetFragment(i)
    \/ \E i \in 1..Len(calls) : ServeUpvote(i)
    \/ \E i \in 1..Len(calls) : ServePromote(i)
    \/ \E i \in 1..Len(calls) : ServeFetchFragments(i)
    \/ \E i \in 1..Len(calls) : ServeFetchIdeas(i)
    \/ \E i \in 1..Len(calls) : AddCommentDone(i)
    \/ \E i \in 1..Len(calls) : UpvoteDone(i)
    \/ \E i \in 1..Len(calls) : PromoteDone(i)
    \/ \E i \in 1..Len(calls) : FetchFragmentsDone(i)
    \/ \E i \in 1..Len(calls) : FetchIdeasDone(i)

Spec == Init /\ [][Next]_vars

(* The specification of concurrent use: the user does not wait for an      *)
(* answer before the next request, and other members act on the fragment.  *)

\* a fragment the community has already built on twice: score 30, one
\* building-on comment short of the promotion floor
DiscussedFragment(i) ==
    LET text == <<"a">>
        one == engineAddComment(FreshFragment(i), text, TRUE).frag
    IN engineAddComment(one, text, TRUE).frag

InitRace ==
    /\ InitClient
    /\ srvFragments = << DiscussedFragment(1) >>
    /\ srvIdeas = <<>>
    /\ limits = [comments |-> RaceComments, upvotes |-> RaceUpvotes,
                 inflight |-> MaxInFlight, stops |-> {}, ideaUpvotes |-> 0]

NextRace ==
    \/ \E k \in 1..Len(fragments) : SelectFragment(k)
    \/ CloseFragmentDrawer
    \/ \E text \in ContentSamples : TypeFragmentComment(text)
    \/ ToggleBuildingOn
    \/ handleAddFragmentComment
    \/ upvoteFragment
    \/ handlePromote
    \/ \E i \in 1..Len(calls) : ServeAddComment(i)
    \/ \E i \in 1..Len(calls) : ServeGetFragment(i)
    \/ \E i \in 1..Len(calls) : ServeUpvote(i)
    \/ \E i \in 1..Len(calls) : ServePromote(i)
    \/ \E i \in 1..Len(calls) : ServeFetchFragments(i)
    \/ \E i \in 1..Len(calls) : ServeFetchIdeas(i)
    \/ \E f \in 1..Len(srvFragments), text \in ContentSamples, b \in BOOLEAN :
           ApiAddComment(f, text, b)
    \/ \E f \in 1..Len(srvFragments) : ApiUpvote(f)
    \/ \E f \in 1..Len(srvFragments) : ApiPromote(f)
    \/ \E i \in 1..Len(calls) : AddCommentDone(i)
    \/ \E i \in 1..Len(calls) : UpvoteDone(i)
    \/ \E i \in 1..Len(calls) : PromoteDone(i)
    \/ \E i \in 1..Len(calls) : FetchFragmentsDone(i)
    \/ \E i \in 1..Len(calls) : FetchIdeasDone(i)

SpecRace == InitRace /\ [][NextRace]_vars

(* The specification of the Strategic Fit panel: the user opens an idea    *)
(* and moves the six sliders.                                              *)

InitRubric ==
    /\ InitClient
    /\ srvFragments = << FreshFragment(1) >>
    /\ srvIdeas = <<>>
    /\ limits = [comments |-> 0, upvotes |-> 0, inflight |-> 0, stops |-> SliderStops,
                 ideaUpvotes |-> 0]

NextRubric ==
    \/ \E i \in 1..Len(calls) : ServeFetchFragments(i)
    \/ \E i \in 1..Len(calls) : ServeFetchIdeas(i)
    \/ \E i \in 1..Len(calls) : FetchFragmentsDone(i)
    \/ \E i \in 1..Len(calls) : FetchIdeasDone(i)
    \/ \E k \in 1..Len(ideas) : OpenIdeaDrawer(k)
    \/ CloseIdeaDrawer
    \/ \E k \in Dimensions, v \in 1..10 : SetRubricScore(k, v)

SpecRubric == InitRubric /\ [][NextRubric]_vars

(* The specification of the Strategic Fit panel with the advisor: the user *)
(* moves the sliders and asks for AI recommendations.                      *)

InitAdvisor ==
    /\ InitClient
    /\ srvFragments = << FreshFragment(1) >>
    /\ srvIdeas = <<>>
    /\ limits = [comments |-> 0, upvotes |-> 0, inflight |-> 0, stops |-> AdvisorStops,
                 ideaUpvotes |-> 0]

NextAdvisor ==
    \/ \E i \in 1..Len(calls) : ServeFetchFragments(i)
    \/ \E i \in 1..Len(calls) : ServeFetchIdeas(i)
    \/ \E i \in 1..Len(calls) : FetchFragmentsDone(i)
    \/ \E i \in 1..Len(calls) : FetchIdeasDone(i)
    \/ \E k \in 1..Len(ideas) : OpenIdeaDrawer(k)
    \/ CloseIdeaDrawer
    \/ \E k \in Dimensions, v \in 1..10 : SetRubricScore(k, v)
    \/ fetchAIRubric
    \/ \E i \in 1..Len(calls), reply \in AdvisorReplies \cup {NetworkError} :
           ServeAIRecommend(i, reply)
    \/ \E i \in 1..Len(calls) : AIRecommendDone(i)

SpecAdvisor == InitAdvisor /\ [][NextAdvisor]_vars

(* The specification of the idea drawer's upvote button: a promoted        *)
(* fragment and its Idea, a user who opens ideas from the list and from the *)
(* pipeline and upvotes them, and other members who upvote.                *)

\* a fragment built on three times and promoted, and the Idea created for it
PromotedFragment(i) ==
    enginePromote(engineAddComment(DiscussedFragment(i), <<"a">>, TRUE).frag, <<>>)

InitIdeas ==
    /\ InitClient
    /\ srvFragments = << PromotedFragment(1).frag >>
    /\ srvIdeas = PromotedFragment(1).ideas
    /\ limits = [comments |-> 0, upvotes |-> 0, inflight |-> MaxInFlight,
                 stops |-> {}, ideaUpvotes |-> MaxIdeaUpvotes]

NextIdeas ==
    \/ \E i \in 1..Len(calls) : ServeFetchFragments(i)
    \/ \E i \in 1..Len(calls) : ServeFetchIdeas(i)
    \/ \E i \in 1..Len(calls) : FetchFragmentsDone(i)
    \/ \E i \in 1..Len(calls) : FetchIdeasDone(i)
    \/ \E k \in 1..Len(ideas) : OpenIdeaDrawer(k)
    \/ \E k \in 1..Len(ideas) : OpenIdeaFromPipeline(k)
    \/ CloseIdeaDrawer
    \/ handleUpvote
    \/ \E i \in 1..Len(calls) : ServeUpvoteIdea(i)
    \/ \E i \in 1..Len(calls) : UpvoteIdeaRejected(i)
    \/ \E i \in 1..Len(calls) : UpvoteIdeaDone(i)
    \/ \E k \in 1..Len(srvIdeas) : ApiUpvoteIdea(k)

SpecIdeas == InitIdeas /\ [][NextIdeas]_vars

(* The specification of the Strategic Fit panel over two ideas: the demo   *)
(* idea and the Idea of a promoted fragment; the user opens either one,    *)
(* moves the sliders and asks for AI recommendations.                      *)

InitTwoIdeas ==
    /\ InitClient
    /\ srvFragments = << PromotedFragment(1).frag >>
    /\ srvIdeas = PromotedFragment(1).ideas
    /\ limits = [comments |-> 0, upvotes |-> 0, inflight |-> 0, stops |-> AdvisorStops,
                 ideaUpvotes |-> 0]

SpecTwoIdeas == InitTwoIdeas /\ [][NextAdvisor]_vars

(* The specification of the navigation: the user clicks through the       *)
(* sidebar, switches persona, follows the buttons of the dashboard and     *)
(* opens ideas from the pages that list them.                              *)

InitNavigation ==
    /\ InitClient
    /\ srvFragments = << FreshFragment(1) >>
    /\ srvIdeas = <<>>
    /\ limits = [comments |-> 0, upvotes |-> 0, inflight |-> 0, stops |-> {},
                 ideaUpvotes |-> 0]

NextNavigation ==
    \/ \E i \in 1..Len(calls) : ServeFetchFragments(i)
    \/ \E i \in 1..Len(calls) : ServeFetchIdeas(i)
    \/ \E i \in 1..Len(calls) : FetchFragmentsDone(i)
    \/ \E i \in 1..Len(calls) : FetchIdeasDone(i)
    \/ \E item \in navItemsFor(persona) : SidebarClick(item)
    \/ \E newPersona \in Personas : handlePersonaChange(newPersona)
    \/ DashboardToIdeas
    \/ \E k \in 1..Len(ideas) : IdeaCardsShown /\ OpenIdeaDrawer(k)
    \/ CloseIdeaDrawer
    \/ ShowIndividualAgents

SpecNavigation == InitNavigation /\ [][NextNavigation]_vars

(* The specification of the ceiling: a fragment the community has built on *)
(* six times, at score 90, and a user who waits for each answer.           *)

NearCeilingFragment(i) ==
    LET text == <<"a">>
        four == engineAddComment(engineAddComment(DiscussedFragment(i), text, TRUE).frag,
                                 text, TRUE).frag
    IN engineAddComment(engineAddComment(four, text, TRUE).frag, text, TRUE).frag

InitCeiling ==
    /\ InitClient
    /\ srvFragments = << NearCeilingFragment(1) >>
    /\ srvIdeas = <<>>
    /\ limits = [comments |-> CeilingComments, upvotes |-> MaxUpvotes, inflight |-> 1,
                 stops |-> {}, ideaUpvotes |-> 0]

SpecCeiling == InitCeiling /\ [][Next]_vars

(* The specification of the Strategic Fit panel at the ends of the scale:  *)
(* the user moves the six sliders between 1 and 10.                        *)

InitRange ==
    /\ InitClient
    /\ srvFragments = << FreshFragment(1) >>
    /\ srvIdeas = <<>>
    /\ limits = [comments |-> 0, upvotes |-> 0, inflight |-> 0, stops |-> RangeStops,
                 ideaUpvotes |-> 0]

SpecRange == InitRange /\ [][NextRubric]_vars

(* The specification of two fragments: the user turns from one fragment to *)
(* the other while a request for the first is in flight.                   *)

InitSwitch ==
    /\ InitClient
    /\ srvFragments = << DiscussedFragment(1), FreshFragment(2) >>
    /\ srvIdeas = <<>>
    /\ limits = [comments |-> SwitchComments, upvotes |-> SwitchUpvotes,
                 inflight |-> 1, stops |-> {}, ideaUpvotes |-> 0]

SpecSwitch == InitSwitch /\ [][NextRace]_vars

(* The specification of a fragment that keeps receiving comments: other    *)
(* members go on commenting, and the backend answers every request.        *)

\* a fragment built on four times and commented once more: score 65,
\* maturing
MaturingFragment(i) ==
    LET text == <<"a">>
        four == engineAddComment(engineAddComment(DiscussedFragment(i), text, TRUE).frag,
                                 text, TRUE).frag
    IN engineAddComment(four, text, FALSE).frag

InitLive ==
    /\ InitClient
    /\ srvFragments = << MaturingFragment(1) >>
    /\ srvIdeas = <<>>
    /\ limits = [comments |-> LiveComments, upvotes |-> LiveUpvotes, inflight |-> 1,
                 stops |-> {}, ideaUpvotes |-> 0]

\* a member's comment with content is recorded
ReceivesComment ==
    \E f \in 1..Len(srvFragments), text \in ContentSamples, b \in BOOLEAN :
        ~IsBlank(text) /\ ApiAddComment(f, text, b)

\* the backend answers a comment that was posted
AnswersComment == \E i \in 1..Len(calls) : ServeAddComment(i)

SpecLive ==
    /\ InitLive
    /\ [][NextRace]_vars
    /\ WF_vars(ReceivesComment)
    /\ WF_vars(AnswersComment)

---------------------------------------------------------------------------
(* Properties of the fragment lifecycle. *)

FragmentIds == 1..Len(srvFragments)

\* the client's copies of fragment f: the card in the list and the drawer
ClientCopies(f) ==
    {fragments[k] : k \in {j \in 1..Len(fragments) : fragments[j].id = f}}
    \cup (IF selectedFragment.id = f THEN {selectedFragment} ELSE {})

\* the same, one step later
ClientCopiesNext(f) ==
    {fragments'[k] : k \in {j \in 1..Len(fragments') : fragments'[j].id = f}}
    \cup (IF selectedFragment'.id = f THEN {selectedFragment'} ELSE {})

\* C1, in each step: the backend's score of a fragment does not decrease and
\* is an integer of 0..100; while the fragment is not promoted, so are the
\* scores the client holds for it, and none is lower than one held before
ScoreStepC1 ==
    \A f \in FragmentIds :
        /\ srvFragments'[f].maturity_score \in srvFragments[f].maturity_score..100
        /\ srvFragments'[f].status # "promoted" =>
               \A new \in ClientCopiesNext(f) :
                   /\ new.maturity_score \in 0..100
                   /\ \A old \in ClientCopies(f) :
                          new.maturity_score >= old.maturity_score

ScoreDerivedStatus(score) ==
    IF score >= 0 /\ score < 40 THEN "incubating"
    ELSE IF score >= 40 /\ score < 80 THEN "maturing"
    ELSE IF score >= 80 THEN "ready-to-promote"
    ELSE "none"

\* the backend's aggregates obey the mapping
StatusFollowsScoreOnBackend ==
    \A f \in FragmentIds :
        srvFragments[f].status # "promoted" =>
            srvFragments[f].status = ScoreDerivedStatus(srvFragments[f].maturity_score)

\* C2: in every reachable state a fragment that is not promoted carries the
\* status its score stands for: incubating below 40, maturing from 40 to 79,
\* ready-to-promote from 80; this holds for the backend's aggregate and for
\* every copy of a fragment the client holds
C2_StatusFollowsScore ==
    /\ StatusFollowsScoreOnBackend
    /\ \A f \in FragmentIds : \A copy \in ClientCopies(f) :
           copy.status # "promoted" =>
               copy.status = ScoreDerivedStatus(copy.maturity_score)

\* the step in which the backend answers the request calls[i]
Served(i, op) ==
    /\ calls[i].op = op /\ calls[i].stage = "post"
    /\ Len(calls') = Len(calls)
    /\ calls'[i].stage # "post"

\* the step in which the client's handler resumes with the answer to calls[i]
Resumed(i, op) ==
    /\ calls[i].op = op /\ calls[i].stage = "done"
    /\ \/ calls' = RemoveAt(calls, i)
       \/ /\ Len(calls') = Len(calls) + 1
          /\ SubSeq(calls', 1, Len(calls) - 1) = RemoveAt(calls, i)

\* the step in which a handler sends a new request
Submitted(op) ==
    /\ Len(calls') = Len(calls) + 1
    /\ SubSeq(calls', 1, Len(calls)) = calls
    /\ calls'[Len(calls')].op = op

IsErrorBody(data) == "detail" \in DOMAIN data

Min(a, b) == IF a < b THEN a ELSE b

\* promoted stays promoted, with the same linked idea
StaysPromoted(old, new) ==
    old.status = "promoted" =>
        new.status = "promoted" /\ new.promoted_to_idea_id = old.promoted_to_idea_id

TerminalOnBackend ==
    \A f \in FragmentIds : StaysPromoted(srvFragments[f], srvFragments'[f])

\* C6: promoted is terminal: once a fragment is promoted, whatever comment,
\* upvote or promote call follows, its status is still promoted and its
\* linked idea is the one the promotion set; this holds for the backend's
\* aggregate, for the card in the client's list and for the open drawer
C6_PromotedIsTerminal ==
    [][ /\ TerminalOnBackend
        /\ Len(fragments') = Len(fragments) =>
               \A k \in 1..Len(fragments) : StaysPromoted(fragments[k], fragments'[k])
        /\ (selectedFragment # NoFragment /\ selectedFragment'.id = selectedFragment.id
             /\ \E i \in 1..Len(calls) : Resumed(i, "upvote") \/ Resumed(i, "addComment"))
            => StaysPromoted(selectedFragment, selectedFragment') ]_vars

\* the backend's part of C7
UpvoteOnBackend ==
    \A i \in 1..Len(calls) : Served(i, "upvote") =>
        LET old == srvFragments[calls[i].fragId]
            new == srvFragments'[calls[i].fragId]
        IN IF old.status # "promoted"
           THEN /\ new.upvotes = old.upvotes + 1
                /\ new.maturity_score = Min(100, old.maturity_score + 2)
                /\ ~IsErrorBody(calls'[i].data)
           ELSE /\ new = old
                /\ calls'[i].data = [detail |-> "InvalidStateError"]

\* C7: an upvote of a fragment that is not promoted adds exactly 1 to its
\* upvote counter and exactly 2 to its score (up to the ceiling of 100), and
\* the client shows the counter, score and status the backend answered; an
\* upvote of a promoted fragment fails with InvalidStateError and leaves
\* counter, score and status as they were, at the backend and in the client
C7_UpvoteEffect ==
    [][ /\ UpvoteOnBackend
        /\ \A i \in 1..Len(calls) : Resumed(i, "upvote") =>
               IF IsErrorBody(calls[i].data)
               THEN fragments' = fragments /\ selectedFragment' = selectedFragment
               ELSE \A copy \in ClientCopiesNext(calls[i].fragId) :
                        /\ copy.upvotes = calls[i].data.upvotes
                        /\ copy.maturity_score = calls[i].data.maturity_score
                        /\ copy.status = calls[i].data.status ]_vars

\* what does hold of upvotes: the backend's part, and the client's part for
\* the upvotes the backend accepted
UpvoteEffectWhenAccepted ==
    [][ /\ UpvoteOnBackend
        /\ \A i \in 1..Len(calls) :
               (Resumed(i, "upvote") /\ ~IsErrorBody(calls[i].data)) =>
                   \A copy \in ClientCopiesNext(calls[i].fragId) :
                       /\ copy.upvotes = calls[i].data.upvotes
                       /\ copy.maturity_score = calls[i].data.maturity_score
                       /\ copy.status = calls[i].data.status ]_vars

\* the Idea records made from fragment f
IdeasOf(f) == {j \in 1..Len(srvIdeas) : srvIdeas[j].fragment = f}

\* C3, in every state: a fragment has at most one Idea, it has one exactly
\* when it is promoted, and that is the idea the fragment links to; every
\* answered promote call carries that idea or AlreadyPromotedError
OneIdeaPerFragment ==
    \A f \in FragmentIds :
        /\ Cardinality(IdeasOf(f)) <= 1
        /\ srvFragments[f].status = "promoted" <=>
               IdeasOf(f) = {srvFragments[f].promoted_to_idea_id}
        /\ \A i \in 1..Len(calls) :
               (calls[i].op = "promote" /\ calls[i].fragId = f /\ calls[i].stage = "done")
               => \/ calls[i].data = [idea_id |-> srvFragments[f].promoted_to_idea_id]
                  \/ calls[i].data = [detail |-> "AlreadyPromotedError"]

\* C3, in every step: an Idea is made only for a fragment that was not
\* promoted, one at a time, and the Ideas made before are kept
OnePromotionPerStep ==
    /\ Len(srvIdeas') \in {Len(srvIdeas), Len(srvIdeas) + 1}
    /\ SubSeq(srvIdeas', 1, Len(srvIdeas)) = srvIdeas
    /\ Len(srvIdeas') = Len(srvIdeas) + 1 =>
           LET f == srvIdeas'[Len(srvIdeas')].fragment
           IN /\ srvFragments[f].status # "promoted"
              /\ srvFragments[f].maturity_score >= 40
              /\ srvFragments'[f].status = "promoted"

\* C3: of the promote calls that race on one fragment with score >= 40
\* exactly one succeeds, the others observe AlreadyPromotedError or the same
\* idea, and exactly one Idea record exists for the fragment afterwards
C3_ExactlyOnePromotion == []OneIdeaPerFragment /\ [][OnePromotionPerStep]_vars

\* C3 witness: two promote calls of the client were in flight together; one
\* was answered with the idea, the other with AlreadyPromotedError
C3_Witness ==
    /\ Len(srvIdeas) = 1
    /\ \E i, j \in 1..Len(calls) :
           /\ calls[i].op = "promote" /\ calls[i].data = [idea_id |-> 1]
           /\ calls[j].op = "promote"
           /\ calls[j].data = [detail |-> "AlreadyPromotedError"]

\* the request a handler has just sent
NewCall == calls'[Len(calls')]

\* C4, the engine on the aggregates of every reachable state: promotion of a
\* fragment that is not promoted succeeds exactly from score 40; below it the
\* outcome is InsufficientMaturityError, no Idea and the fragment as it was
PromotionFloor ==
    \A f \in FragmentIds :
        LET frag == srvFragments[f]
            r == enginePromote(frag, srvIdeas)
        IN frag.status # "promoted" =>
               /\ r.error = "" <=> frag.maturity_score >= 40
               /\ frag.maturity_score < 40 =>
                      /\ r.error = "InsufficientMaturityError"
                      /\ r.frag = frag
                      /\ r.ideas = srvIdeas

\* C4, in every step: the drawer sends a promote request only for a score of
\* at least 40, and the backend answers a request for a fragment that is not
\* promoted with the new Idea from score 40 and with the refusal below it
PromotionStep ==
    /\ Submitted("promote") =>
           /\ selectedFragment.maturity_score >= 40
           /\ NewCall.fragId = selectedFragment.id
    /\ \A i \in 1..Len(calls) : Served(i, "promote") =>
           LET f == calls[i].fragId
               old == srvFragments[f]
               new == srvFragments'[f]
           IN old.status # "promoted" =>
                  IF old.maturity_score >= 40
                  THEN /\ new = [old EXCEPT !.status = "promoted",
                                            !.promoted_to_idea_id = Len(srvIdeas')]
                       /\ Len(srvIdeas') = Len(srvIdeas) + 1
                       /\ srvIdeas'[Len(srvIdeas')].fragment = f
                       /\ calls'[i].data = [idea_id |-> Len(srvIdeas')]
                  ELSE /\ new = old
                       /\ srvIdeas' = srvIdeas
                       /\ calls'[i].data = [detail |-> "InsufficientMaturityError"]

\* C4: promote on a fragment that is not promoted succeeds exactly when its
\* score is at least 40; below 40 it is refused, makes no Idea and leaves the
\* fragment unchanged
C4_PromoteFloor == []PromotionFloor /\ [][PromotionStep]_vars

\* C4 witness: a fragment promoted at score exactly 40, the answer still on
\* its way to the drawer
C4_Witness ==
    /\ srvFragments[1].status = "promoted"
    /\ srvFragments[1].maturity_score = 40
    /\ srvIdeas = << NewIdea(srvFragments[1], <<>>) >>
    /\ \E i \in 1..Len(calls) : calls[i].op = "promote" /\ calls[i].data = [idea_id |-> 1]

\* C5, in every step: the drawer offers promotion only while its copy is not
\* promoted; a promote request for a promoted fragment is answered with
\* AlreadyPromotedError, makes no Idea and leaves the fragment, its link
\* included, as it was
SecondPromotionStep ==
    /\ Submitted("promote") => selectedFragment.status # "promoted"
    /\ \A i \in 1..Len(calls) : Served(i, "promote") =>
           LET f == calls[i].fragId
           IN srvFragments[f].status = "promoted" =>
                  /\ calls'[i].data = [detail |-> "AlreadyPromotedError"]
                  /\ srvIdeas' = srvIdeas
                  /\ srvFragments'[f] = srvFragments[f]
                  /\ srvFragments'[f].promoted_to_idea_id \in IdeasOf(f)

\* C5: promote on a promoted fragment fails with AlreadyPromotedError, makes
\* no second Idea and leaves promotedIdeaId on the Idea of the first promotion
C5_SecondPromoteRefused == [][SecondPromotionStep]_vars

\* C5 witness: the drawer still showed the copy from before the promotion,
\* the user promoted again and the backend refused
C5_Witness ==
    /\ srvFragments[1].status = "promoted"
    /\ srvFragments[1].promoted_to_idea_id = 1
    /\ Len(srvIdeas) = 1
    /\ selectedFragment.id = 1 /\ selectedFragment.status # "promoted"
    /\ \E i \in 1..Len(calls) :
           /\ calls[i].op = "promote" /\ calls[i].stage = "done"
           /\ calls[i].data = [detail |-> "AlreadyPromotedError"]

\* text with nothing but white space in it
Blank(text) == \A n \in 1..Len(text) : text[n] = " "

\* C8, in every step: the request carries the text of the box and the state
\* of the checkbox; the backend appends that one comment at the end and adds
\* 15 for a building-on comment, 5 otherwise, up to the ceiling of 100; the
\* drawer then shows the fragment with the comment last
CommentStep ==
    /\ Submitted("addComment") =>
           /\ NewCall.fragId = selectedFragment.id
           /\ NewCall.content = newFragmentComment
           /\ NewCall.building = isBuildingOn
    /\ \A i \in 1..Len(calls) : Served(i, "addComment") =>
           LET old == srvFragments[calls[i].fragId]
               new == srvFragments'[calls[i].fragId]
               delta == IF calls[i].building THEN 15 ELSE 5
           IN ~Blank(calls[i].content) =>
                  /\ Len(new.comments) = Len(old.comments) + 1
                  /\ SubSeq(new.comments, 1, Len(old.comments)) = old.comments
                  /\ new.comments[Len(new.comments)].content = calls[i].content
                  /\ new.comments[Len(new.comments)].is_building_on = calls[i].building
                  /\ new.maturity_score = Min(100, old.maturity_score + delta)
                  /\ new.upvotes = old.upvotes
    /\ \A i \in 1..Len(calls) : Resumed(i, "addComment") =>
           /\ selectedFragment' = srvFragments[calls[i].fragId]
           /\ selectedFragment'.comments[Len(selectedFragment'.comments)].content
                  = calls[i].content

\* C8: addComment with non-empty content adds exactly 15 to the score when
\* isBuildingOn is true and exactly 5 when it is false (before the clamp to
\* 100) and appends exactly one comment at the end of the comment sequence
C8_CommentEffect == [][CommentStep]_vars

\* C8 witness: a building-on comment and an ordinary one have been stored,
\* in that order, and the drawer shows both with the score of 20
C8_Witness ==
    /\ Len(srvFragments[1].comments) = 2
    /\ srvFragments[1].comments[1].is_building_on
    /\ ~srvFragments[1].comments[2].is_building_on
    /\ srvFragments[1].maturity_score = 20
    /\ selectedFragment = srvFragments[1]

\* C9, the engine on the aggregates of every reachable state: a comment of
\* white space only is refused with ValidationError and changes nothing
BlankCommentRefused ==
    \A f \in FragmentIds : \A text \in ContentSamples : \A b \in BOOLEAN :
        Blank(text) =>
            engineAddComment(srvFragments[f], text, b)
                = [error |-> "ValidationError", frag |-> srvFragments[f]]

\* C9, in every step: the drawer sends no blank comment; should a blank
\* comment reach the backend, the answer leaves every fragment as it was
BlankCommentStep ==
    /\ Submitted("addComment") => ~Blank(NewCall.content)
    /\ \A i \in 1..Len(calls) : Served(i, "addComment") =>
           (Blank(calls[i].content) => srvFragments' = srvFragments)

\* C9: addComment with empty or whitespace-only content fails with
\* ValidationError and leaves the fragment unchanged: no comment is appended
\* and score, status and upvotes keep their values
C9_BlankCommentRejected == []BlankCommentRefused /\ [][BlankCommentStep]_vars

\* C9 witness: the drawer is open on a fragment with comments, the box holds
\* white space only, and nothing is on its way to the backend
C9_Witness ==
    /\ DrawerOpen
    /\ newFragmentComment = <<" ">>
    /\ calls = <<>>
    /\ Len(srvFragments[1].comments) > 0
    /\ ~ENABLED handleAddFragmentComment

---------------------------------------------------------------------------
(* Properties of the classifier. *)

\* the quadrant of the design (section 4.4) for the two threshold tests
QuadrantTable(highValue, highEffort) ==
    CASE highValue /\ ~highEffort -> "Quick Wins"
      [] highValue /\ highEffort -> "Big Bets"
      [] ~highValue /\ ~highEffort -> "Low Priority"
      [] ~highValue /\ highEffort -> "Parking Lot"

\* valueScore >= 6.5 for valueScore = (0.20 e + 0.25 r) / 0.45, in hundredths
\* and doubled: 2 * (20 e + 25 r) >= 13 * 45
ExactHighValue(scores) ==
    2 * (20 * scores["emotional_needs"] + 25 * scores["revenue_impact"]) >= 13 * 45

\* effortScore >= 6.0 for effortScore = (0.15 a + 0.15 b + 0.10 c + 0.15 d) / 0.55,
\* in hundredths: 15 a + 15 b + 10 c + 15 d >= 6 * 55
ExactHighEffort(scores) ==
    15 * scores["drastic_change"] + 15 * scores["pilot_complexity"]
    + 10 * scores["people_build"] + 15 * scores["technology_capex"] >= 6 * 55

\* C10: for six integer dimension scores in [1,10] the classifier returns
\* the one quadrant that highValue (valueScore >= 6.5) and highEffort
\* (effortScore >= 6.0) determine: Quick Wins for high value and low effort,
\* Big Bets for high and high, Low Priority for low and low, Parking Lot for
\* low value and high effort
C10_QuadrantByThresholds ==
    /\ \A k \in Dimensions : rubricScores[k] \in 1..10
    /\ calculateRubricQuadrant(rubricScores).quadrant
           = QuadrantTable(ExactHighValue(rubricScores), ExactHighEffort(rubricScores))

\* what does hold: the quadrant is the one the table gives for the
\* threshold tests on the two double-precision scores the code computes
QuadrantFollowsComputedScores ==
    calculateRubricQuadrant(rubricScores).quadrant
        = QuadrantTable(NatGe(valueScoreOf(rubricScores), FHalves(13)),
                        NatGe(effortScoreOf(rubricScores), FInt(6)))

\* what does hold: the value threshold test agrees with the exact one
ValueThresholdExact ==
    NatGe(valueScoreOf(rubricScores), FHalves(13)) = ExactHighValue(rubricScores)

\* every dimension of the set holds n
Uniform(scores, dims, n) == \A k \in dims : scores[k] = n

\* C11: the normalization is exact on uniform inputs: with both value
\* dimensions at v the value score computed is v, and with the four effort
\* dimensions at x the effort score computed is x, for every v and x of 1..10
C11_UniformExact ==
    \A n \in 1..10 :
        /\ Uniform(rubricScores, ValueDimensions, n)
               => valueScoreOf(rubricScores) = FInt(n)
        /\ Uniform(rubricScores, EffortDimensions, n)
               => effortScoreOf(rubricScores) = FInt(n)

\* scores with the value dimensions at v and the effort dimensions at x
UniformScores(v, x) == [k \in Dimensions |-> IF k \in ValueDimensions THEN v ELSE x]

\* what does hold: the four examples of the design (section 8)
QuadrantExamples ==
    /\ calculateRubricQuadrant(UniformScores(9, 9)).quadrant = "Big Bets"
    /\ calculateRubricQuadrant(UniformScores(2, 2)).quadrant = "Low Priority"
    /\ calculateRubricQuadrant(UniformScores(2, 9)).quadrant = "Parking Lot"
    /\ calculateRubricQuadrant(UniformScores(8, 3)).quadrant = "Quick Wins"
    /\ \A v, x \in 1..10 :
           /\ calculateRubricQuadrant(UniformScores(v, x)).valueScore = 10 * v
           /\ calculateRubricQuadrant(UniformScores(v, x)).effortScore = 10 * x

\* what does hold on uniform inputs: the scores returned, which are rounded
\* to one decimal place, are v and x
UniformExactToOneDecimal ==
    \A n \in 1..10 :
        /\ Uniform(rubricScores, ValueDimensions, n)
               => calculateRubricQuadrant(rubricScores).valueScore = 10 * n
        /\ Uniform(rubricScores, EffortDimensions, n)
               => calculateRubricQuadrant(rubricScores).effortScore = 10 * n

---------------------------------------------------------------------------
(* Properties of the rubric advisor. *)

\* the idea drawer is rendered, and with it the Strategic Fit preview, which
\* calls calculateRubricQuadrant
PreviewRendered == showIdeaDrawer /\ selectedIdea # NoIdea

\* C12: every dimension value that reaches the classifier is an integer of
\* 1..10, the values an advisor proposed included: no value outside 1..10 is
\* stored as a rubric score, and none is consumed by the classifier
C12_DimensionsValidated ==
    /\ \A k \in DOMAIN rubricScores : rubricScores[k] \in 1..10
    /\ PreviewRendered =>
           \A k \in Dimensions : scoreOrDefault(rubricScores, k) \in 1..10

\* the value the panel holds for dimension k: undefined when the key is gone
Held(scores, k) == NumField(scores, k)

\* what does hold: the sliders alone store integers of 1..10 only
SlidersStoreValidScores ==
    [][ rubricScores' # rubricScores /\ calls' = calls
            => \E k \in Dimensions :
                   /\ Held(rubricScores', k) \in 1..10
                   /\ \A d \in Dimensions \ {k} :
                          Held(rubricScores', d) = Held(rubricScores, d) ]_vars

\* a suggestion that passes validation: six dimensions, each an integer of 1..10
ValidSuggestion(data) ==
    /\ "ai_scores" \in DOMAIN data
    /\ DOMAIN data.ai_scores = Dimensions
    /\ \A k \in Dimensions : NumField(data.ai_scores[k], "score") \in 1..10

\* C13, in the step in which fetchAIRubric resumes with the advisor's answer:
\* all six dimensions keep their values, or the answer is a valid suggestion
\* and all six hold its values
AdvisorStep ==
    \A i \in 1..Len(calls) : Resumed(i, "aiRecommend") =>
        LET data == calls[i].data
        IN \/ \A k \in Dimensions : Held(rubricScores', k) = Held(rubricScores, k)
           \/ /\ ValidSuggestion(data)
              /\ \A k \in Dimensions :
                     Held(rubricScores', k) = data.ai_scores[k].score

\* C13: an advisor suggestion is applied all-or-nothing: when the request
\* finishes, all six dimensions hold the validated proposed values or all six
\* keep their previous values; a failed, invalid or incomplete suggestion
\* changes none of them
C13_SuggestionAllOrNothing == [][AdvisorStep]_vars

\* what does hold: an answer without ai_scores, an unreachable advisor and a
\* null entry change no dimension, and a valid suggestion is taken whole
AdvisorFailureDiscarded ==
    [][ \A i \in 1..Len(calls) : Resumed(i, "aiRecommend") =>
            LET data == calls[i].data
            IN /\ aiRubricThrows(data) \/ "ai_scores" \notin DOMAIN data
                   => rubricScores' = rubricScores
               /\ ValidSuggestion(data)
                   => rubricScores' = [k \in Dimensions |-> data.ai_scores[k].score]
      ]_vars

---------------------------------------------------------------------------
(* Properties of the fragment lifecycle under concurrent use. *)

\* the comments of a fragment that build on it, and the ordinary ones
BuildingOnComments(frag) ==
    Cardinality({j \in 1..Len(frag.comments) : frag.comments[j].is_building_on})
OrdinaryComments(frag) == Len(frag.comments) - BuildingOnComments(frag)

\* C14, in every state: the score of a fragment that is not promoted is the
\* sum of the deltas of its n building-on comments, m ordinary comments and
\* k upvotes, 15n + 5m + 2k, up to the ceiling of 100
ScoreIsSumOfDeltas ==
    \A f \in FragmentIds :
        LET frag == srvFragments[f]
        IN frag.status # "promoted" =>
               frag.maturity_score
                   = Min(100, 15 * BuildingOnComments(frag)
                              + 5 * OrdinaryComments(frag) + 2 * frag.upvotes)

\* C14, in every step: an aggregate changes by one whole operation, a
\* comment appended, the counter raised by one or the promotion, and every
\* comment and upvote the backend accepts from the client is one of them
EveryUpdateApplied ==
    /\ \A f \in FragmentIds :
           LET old == srvFragments[f]
               new == srvFragments'[f]
           IN \/ new = old
              \/ /\ Len(new.comments) = Len(old.comments) + 1
                 /\ SubSeq(new.comments, 1, Len(old.comments)) = old.comments
                 /\ new.upvotes = old.upvotes
              \/ /\ new.upvotes = old.upvotes + 1
                 /\ new.comments = old.comments
              \/ /\ new = [old EXCEPT !.status = "promoted",
                                       !.promoted_to_idea_id = new.promoted_to_idea_id]
                 /\ old.status # "promoted"
    /\ \A i \in 1..Len(calls) :
           LET old == srvFragments[calls[i].fragId]
               new == srvFragments'[calls[i].fragId]
           IN /\ (Served(i, "addComment") /\ ~Blank(calls[i].content))
                  => Len(new.comments) = Len(old.comments) + 1
              /\ (Served(i, "upvote") /\ old.status # "promoted")
                  => new.upvotes = old.upvotes + 1

\* C14: no update is lost under concurrency: after any interleaving of n
\* building-on comments, m ordinary comments and k upvotes on a fragment
\* that is not promoted it has n + m comments, upvote counter k and score
\* min(100, 15n + 5m + 2k), whatever the order they were applied in
C14_NoLostUpdate == []ScoreIsSumOfDeltas /\ [][EveryUpdateApplied]_vars

\* C14 witness: the client's upvote and its ordinary comment were in flight
\* together with another member's building-on comment; the comment, sent
\* last, was applied before the upvote, and the fragment holds all of them
C14_Witness ==
    /\ srvFragments[1].status # "promoted"
    /\ BuildingOnComments(srvFragments[1]) = 3
    /\ OrdinaryComments(srvFragments[1]) = 1
    /\ srvFragments[1].upvotes = 1
    /\ srvFragments[1].maturity_score = 52
    /\ Len(calls) = 2
    /\ calls[1].op = "upvote" /\ calls[1].stage = "done"
    /\ calls[1].data.maturity_score = 52
    /\ calls[2].op = "addComment" /\ calls[2].stage = "done"
    /\ calls[2].data.maturity_score = 50

\* the score with every comment and upvote applied so far
LatestScore(frag) ==
    Min(100, 15 * BuildingOnComments(frag) + 5 * OrdinaryComments(frag)
             + 2 * frag.upvotes)

\* C15, the engine on the aggregates of every reachable state, those with
\* a comment of the client on its way included: promote of a fragment that
\* is not promoted succeeds exactly when the score with every comment
\* applied so far is at least 40, and is refused for want of maturity
\* exactly when it is below
EligibilityOnLatestScore ==
    \A f \in FragmentIds :
        LET frag == srvFragments[f]
            r == enginePromote(frag, srvIdeas)
        IN frag.status # "promoted" =>
               /\ r.error = "" <=> LatestScore(frag) >= 40
               /\ r.error = "InsufficientMaturityError" <=> LatestScore(frag) < 40

\* C15, in every step: no step takes a comment away from a fragment; a
\* comment the backend accepts is appended whether or not a promotion came
\* first; the step that promotes found the score with all comments applied
\* at 40 or more and leaves comments and score as they were
CommentPromoteStep ==
    /\ \A f \in FragmentIds :
           LET old == srvFragments[f]
               new == srvFragments'[f]
           IN /\ Len(new.comments) >= Len(old.comments)
              /\ SubSeq(new.comments, 1, Len(old.comments)) = old.comments
              /\ (old.status # "promoted" /\ new.status = "promoted") =>
                     /\ LatestScore(old) >= 40
                     /\ old.maturity_score = LatestScore(old)
                     /\ new.comments = old.comments
                     /\ new.maturity_score = old.maturity_score
    /\ \A i \in 1..Len(calls) :
           (Served(i, "addComment") /\ ~Blank(calls[i].content)) =>
               LET new == srvFragments'[calls[i].fragId]
               IN new.comments[Len(new.comments)].content = calls[i].content

\* C15: when addComment and promote run concurrently on one fragment the
\* outcome is that of one of the two serial orders: the comment is never
\* lost, and the promotion is decided against the score that includes every
\* comment applied before it
C15_CommentPromoteSerial ==
    []EligibilityOnLatestScore /\ [][CommentPromoteStep]_vars

\* C15 witness: while the client's building-on comment was in progress (its
\* POST answered, its refresh not yet) another member promoted the fragment;
\* the promotion found the score of 45 that includes the comment
C15_Witness ==
    /\ srvFragments[1].status = "promoted"
    /\ srvFragments[1].maturity_score = 45
    /\ Len(srvFragments[1].comments) = 3
    /\ Len(srvIdeas) = 1
    /\ \E i \in 1..Len(calls) :
           /\ calls[i].op = "addComment" /\ calls[i].stage = "get"
           /\ calls[i].building
           /\ srvFragments[1].comments[3].content = calls[i].content

\* what does hold, concurrency included: a score the client holds is never
\* above the backend's
ClientCopyNotAhead ==
    \A f \in FragmentIds : \A copy \in ClientCopies(f) :
        copy.maturity_score <= srvFragments[f].maturity_score

---------------------------------------------------------------------------
(* Properties of the status. *)

\* the order of the lifecycle: incubating < maturing < ready-to-promote
StatusRank(status) ==
    CASE status = "incubating" -> 1
      [] status = "maturing" -> 2
      [] status = "ready-to-promote" -> 3
      [] status = "promoted" -> 4
      [] OTHER -> 0

\* the aggregate, in every step: the status of a fragment that is not
\* promoted moves to no lower value; the step that sets it to promoted is a
\* promotion, which leaves comments and upvote counter alone and creates one
\* Idea; and serving a comment or an upvote never sets it to promoted
AggregateStatusStep ==
    /\ \A f \in FragmentIds :
           LET old == srvFragments[f]
               new == srvFragments'[f]
           IN /\ old.status # "promoted"
                  => StatusRank(new.status) >= StatusRank(old.status)
              /\ (old.status # "promoted" /\ new.status = "promoted")
                  => /\ new.comments = old.comments
                     /\ new.upvotes = old.upvotes
                     /\ Len(srvIdeas') = Len(srvIdeas) + 1
    /\ \A i \in 1..Len(calls) :
           (Served(i, "addComment") \/ Served(i, "upvote")) =>
               (srvFragments'[calls[i].fragId].status = "promoted"
                    => srvFragments[calls[i].fragId].status = "promoted")

\* the copies the client holds of a fragment that is not promoted: in every
\* step their status moves to no lower value
ClientStatusStep ==
    \A f \in FragmentIds :
        srvFragments'[f].status # "promoted" =>
            \A after \in ClientCopiesNext(f) : \A before \in ClientCopies(f) :
                StatusRank(after.status) >= StatusRank(before.status)

StatusStep == AggregateStatusStep /\ ClientStatusStep

\* the aggregate's half of the status order, for the specification in which
\* several requests are in flight at once
AggregateStatusNeverRegresses == [][AggregateStatusStep]_vars

---------------------------------------------------------------------------
(* Properties of the promotion's frame. *)

\* the comments held before are all still there: same comments, same order,
\* same contents
CommentsKept(before, after) ==
    /\ Len(after) >= Len(before)
    /\ \A k \in 1..Len(before) : after[k] = before[k]

\* C17, in every step: the step that promotes an aggregate changes its status
\* and its link to the Idea and no other field, so the comment sequence is
\* the one it was; and when a copy the client holds turns to promoted, the
\* comments it held before are in it, unchanged and in the same order
PromoteFrameStep ==
    \A f \in FragmentIds :
        LET old == srvFragments[f]
            new == srvFragments'[f]
        IN /\ (old.status # "promoted" /\ new.status = "promoted")
               => /\ new = [old EXCEPT !.status = "promoted",
                                       !.promoted_to_idea_id = Len(srvIdeas')]
                  /\ new.comments = old.comments
                  /\ new.promoted_to_idea_id # old.promoted_to_idea_id
           /\ \A after \in ClientCopiesNext(f) : \A before \in ClientCopies(f) :
                  (before.status # "promoted" /\ after.status = "promoted")
                      => CommentsKept(before.comments, after.comments)

\* C17: a successful promote leaves the comment sequence of the fragment as
\* it was, same comments, same order, same contents, and changes only the
\* status and the promoted Idea's id on the fragment
C17_PromoteKeepsComments == [][PromoteFrameStep]_vars

\* C17 witness: a fragment with three comments has been promoted, and the
\* refreshed list shows it as promoted with the same three comments
C17_Witness ==
    /\ srvFragments[1].status = "promoted"
    /\ srvFragments[1].promoted_to_idea_id = 1
    /\ Len(srvFragments[1].comments) = 3
    /\ \E k \in 1..Len(fragments) :
           /\ fragments[k].id = 1
           /\ fragments[k].status = "promoted"
           /\ fragments[k].comments = srvFragments[1].comments
    /\ calls = <<>>

---------------------------------------------------------------------------
(* Properties of the classifier as a function. *)

\* the six dimension values the classifier works with
SixScores(scores) == [d \in Dimensions |-> scoreOrDefault(scores, d)]

\* the effort sum in hundredths: 15 a + 15 b + 10 c + 15 d
EffortHundredths(six) ==
    15 * six["drastic_change"] + 15 * six["pilot_complexity"]
    + 10 * six["people_build"] + 15 * six["technology_capex"]

\* the effort score is exactly 6, where the rounding of the doubles decides
\* the test effortScore >= 6.0
EffortTie(six) == EffortHundredths(six) = 6 * 55

\* the classifier's result written as a function of the six dimension scores
\* and of nothing else, in integers: the scores in tenths, rounded half up,
\* and the quadrant of the two threshold tests, where an effort score of
\* exactly 6 does not count as high
ResultOfSix(six) ==
    LET valueHundredths == 20 * six["emotional_needs"] + 25 * six["revenue_impact"]
    IN [valueScore |-> (4 * valueHundredths + 9) \div 18,
        effortScore |-> (4 * EffortHundredths(six) + 11) \div 22,
        quadrant |-> QuadrantTable(ExactHighValue(six),
                                   ExactHighEffort(six) /\ ~EffortTie(six))]

\* in every state, whatever idea is selected, whatever the advisor answered
\* and whatever was computed before: the two scores are the ones the six
\* dimension scores determine, and so is the quadrant, the inputs with an
\* effort score of exactly 6 other than 6, 6, 6, 6 set aside; and the object
\* rubricScores counts through the six dimension scores only
ClassifierIsFunctionOfSix ==
    LET six == SixScores(rubricScores)
        result == calculateRubricQuadrant(rubricScores)
    IN /\ result.valueScore = ResultOfSix(six).valueScore
       /\ result.effortScore = ResultOfSix(six).effortScore
       /\ (~EffortTie(six) \/ Uniform(six, EffortDimensions, 6))
              => result.quadrant = ResultOfSix(six).quadrant
       /\ result = calculateRubricQuadrant(six)

\* the effort scores of exactly 6 that are reached are those of 6, 6, 6, 6
EffortTiesReached ==
    EffortTie(SixScores(rubricScores))
        => Uniform(SixScores(rubricScores), EffortDimensions, 6)

\* C18: the classifier is deterministic: two calls with the same six
\* dimension scores return the same valueScore, effortScore and quadrant,
\* whatever other state (selected idea, earlier calls, advisor results)
\* differs between the calls
C18_ClassifierDeterministic == ClassifierIsFunctionOfSix

\* C18 witness: the six dimensions stand at 5, as they did at the start when
\* no idea was selected and the advisor had not been asked, and now an idea is
\* selected, its drawer is open and the advisor has answered
C18_Witness ==
    /\ rubricScores = InitialRubricScores
    /\ selectedIdea # NoIdea
    /\ showIdeaDrawer
    /\ rubricResult # NoResult
    /\ calls = <<>>
    /\ calculateRubricQuadrant(rubricScores).quadrant = "Low Priority"

---------------------------------------------------------------------------
(* Properties of the upvote counter of an Idea. *)

\* the step in which the backend answers the upvoteIdea request calls[i]
IdeaUpvoteServed(i) ==
    /\ calls[i].op = "upvoteIdea" /\ calls[i].stage = "post"
    /\ Len(calls') = Len(calls)
    /\ calls' = [calls EXCEPT ![i] = calls'[i]]
    /\ calls'[i].stage = "done"

\* the upvote of the existing Idea srvIdeas[k] that calls[i] asks for is
\* served
ServedIdeaUpvote(i, k) ==
    /\ IdeaUpvoteServed(i)
    /\ srvIdeas[k].id = calls[i].ideaId

\* the backend's counters, in every step: no counter decreases or is
\* negative, and serving an upvoteIdea call raises the counter of its Idea by
\* exactly one and no other counter
IdeaCounterOnBackend ==
    /\ Len(srvIdeas') >= Len(srvIdeas)
    /\ \A k \in 1..Len(srvIdeas) :
           /\ srvIdeas[k].upvotes >= 0
           /\ srvIdeas'[k].upvotes >= srvIdeas[k].upvotes
           /\ \A i \in 1..Len(calls) :
                  IdeaUpvoteServed(i) =>
                      srvIdeas'[k].upvotes
                          = srvIdeas[k].upvotes + (IF ServedIdeaUpvote(i, k) THEN 1 ELSE 0)

\* the counters the client shows for the Idea x: on its card in the list
\* and, with the drawer open on it, on the upvote button
ShownUpvotes(x) ==
    {ideas[k].upvotes : k \in {j \in 1..Len(ideas) : ideas[j].id = x}}
    \cup (IF showIdeaDrawer /\ selectedIdea.id = x THEN {displayedUpvotes} ELSE {})

\* the same, one step later
ShownUpvotesNext(x) ==
    {ideas'[k].upvotes : k \in {j \in 1..Len(ideas') : ideas'[j].id = x}}
    \cup (IF showIdeaDrawer' /\ selectedIdea'.id = x
          THEN {selectedIdea'.upvotes + (IF hasUpvoted' THEN 1 ELSE 0)} ELSE {})

IdeaIds == {0} \cup {srvIdeas[k].id : k \in 1..Len(srvIdeas)}

\* the highest of the counters of a set
Highest(shown) == CHOOSE n \in shown : \A m \in shown : m <= n

\* the counters shown, in every step: none is negative, and the highest
\* counter shown for an Idea is not lower than the highest shown for it just
\* before; and the counter on the button goes up by one when the handler of
\* an upvote resumes
IdeaCounterShown ==
    /\ \A x \in IdeaIds :
           /\ \A after \in ShownUpvotesNext(x) : after >= 0
           /\ (ShownUpvotes(x) # {} /\ ShownUpvotesNext(x) # {})
                  => Highest(ShownUpvotesNext(x)) >= Highest(ShownUpvotes(x))
    /\ \A i \in 1..Len(calls) :
           (Resumed(i, "upvoteIdea") /\ showIdeaDrawer /\ showIdeaDrawer'
            /\ selectedIdea.id = calls[i].ideaId)
               => selectedIdea'.upvotes + (IF hasUpvoted' THEN 1 ELSE 0)
                      = displayedUpvotes + 1

\* C19: the upvote counter of an Idea increases by exactly one per
\* upvoteIdea call and, over any sequence of operations, never decreases and
\* never becomes negative
C19_IdeaUpvoteCounter == [][IdeaCounterOnBackend /\ IdeaCounterShown]_vars

\* what does hold: the counters of the Idea records at the backend
IdeaCounterOnBackendHolds == [][IdeaCounterOnBackend]_vars

---------------------------------------------------------------------------
(* Properties of the quadrant of an Idea. *)

\* C20: the quadrant reported for an Idea always equals the classifier
\* applied to the current six dimension scores of that Idea: with the drawer
\* open on an Idea and its dimensions on the sliders, the quadrant the Idea
\* carries is the one the classifier returns for them
C20_QuadrantFollowsDimensions ==
    PreviewRendered
        => StrField(selectedIdea, "quadrant")
               = calculateRubricQuadrant(rubricScores).quadrant

\* what does hold: an Idea as it is created carries the quadrant of the
\* default dimension scores
DefaultQuadrantIsClassified ==
    calculateRubricQuadrant(InitialRubricScores).quadrant = DefaultQuadrant

\* what does hold: the quadrant an Idea carries is the one it was loaded
\* with, whatever the sliders are moved to
StoredQuadrantNeverRecomputed ==
    selectedIdea # NoIdea
        => StrField(selectedIdea, "quadrant") \in {DemoQuadrant, DefaultQuadrant}

---------------------------------------------------------------------------
(* Properties of the dimensions of each Idea. *)

\* in every step: the dimension scores of every Idea other than the one the
\* drawer is on stay as they were
OwnDimensionsStep ==
    \A k \in 1..Len(ideas) :
        (selectedIdea # NoIdea /\ ideas[k].id # selectedIdea.id)
            => rubricScoresOf(ideas[k])' = rubricScoresOf(ideas[k])

\* C21: each Idea has its own six rubric dimensions: changing a dimension of
\* one Idea, by slider or by an accepted suggestion of the advisor, leaves
\* the dimensions and the derived quadrant of every other Idea unchanged, and
\* opening another Idea shows that Idea's own scores
C21_IdeaOwnsDimensions == [][OwnDimensionsStep]_vars

\* what does hold: the scores change only while the drawer is open or an
\* answer of the advisor arrives
ScoresChangeByGesture ==
    [][rubricScores' # rubricScores
          => \/ showIdeaDrawer
             \/ \E i \in 1..Len(calls) : Resumed(i, "aiRecommend")]_vars

---------------------------------------------------------------------------
(* Properties of the navigation. *)

\* C22: after any sequence of sidebar clicks, buttons inside the pages and
\* persona switches, the view displayed is one of the navigation items the
\* sidebar lists for the current persona
C22_ViewListedForPersona == currentView \in navItemsFor(persona)

\* what does hold, in every state: the view is one the sidebar lists for the
\* persona, or the agents page, which no sidebar lists
ViewListedOrAgents == currentView \in navItemsFor(persona) \cup {"agents"}

\* what does hold, in every step: a switch of persona lands on the dashboard
PersonaSwitchLandsOnDashboard ==
    [][persona' # persona => currentView' = "dashboard"]_vars

---------------------------------------------------------------------------
(* Properties of the ceiling of the score. *)

\* C23, in every step: a comment with content served at score 100 is
\* appended and leaves the score at 100; an upvote of a fragment that is not
\* promoted served at score 100 raises the counter by one and leaves the
\* score at 100; and the client then shows what was recorded: the comment in
\* the drawer, the counter and the score of the answer in drawer and list
CeilingStep ==
    /\ \A i \in 1..Len(calls) : Served(i, "addComment") =>
           LET old == srvFragments[calls[i].fragId]
               new == srvFragments'[calls[i].fragId]
           IN (old.maturity_score = 100 /\ ~Blank(calls[i].content)) =>
                  /\ new.maturity_score = 100
                  /\ Len(new.comments) = Len(old.comments) + 1
                  /\ SubSeq(new.comments, 1, Len(old.comments)) = old.comments
                  /\ new.upvotes = old.upvotes
    /\ \A i \in 1..Len(calls) : Served(i, "upvote") =>
           LET old == srvFragments[calls[i].fragId]
               new == srvFragments'[calls[i].fragId]
           IN (old.maturity_score = 100 /\ old.status # "promoted") =>
                  /\ new.maturity_score = 100
                  /\ new.upvotes = old.upvotes + 1
                  /\ new.comments = old.comments
    /\ \A i \in 1..Len(calls) :
           (Resumed(i, "upvote") /\ NumField(calls[i].data, "maturity_score") = 100) =>
               \A copy \in ClientCopiesNext(calls[i].fragId) :
                   /\ copy.maturity_score = 100
                   /\ copy.upvotes = calls[i].data.upvotes
    /\ \A i \in 1..Len(calls) :
           (Resumed(i, "addComment") /\ NumField(calls[i].data, "maturity_score") = 100) =>
               \A copy \in ClientCopiesNext(calls[i].fragId) :
                   /\ copy.maturity_score = 100
                   /\ copy.comments = calls[i].data.comments

\* C23: once the score has reached 100, further addComment and upvote
\* operations leave it at 100 but are still recorded: each such addComment
\* appends one comment and each such upvote raises the upvote counter by one
C23_RecordedAtCeiling == [][CeilingStep]_vars

\* C23 witness: the drawer shows eight building-on comments, the eighth
\* added at score 100, and the answer to an upvote sent at score 100 has
\* arrived with the counter raised and the score still 100
C23_Witness ==
    /\ selectedFragment # NoFragment
    /\ selectedFragment.status = "ready-to-promote"
    /\ selectedFragment.maturity_score = 100
    /\ Len(selectedFragment.comments) = 8
    /\ \A n \in 1..7 : selectedFragment.comments[n].is_building_on
    /\ \E i \in 1..Len(calls) :
           /\ calls[i].op = "upvote" /\ calls[i].stage = "done"
           /\ calls[i].data.maturity_score = 100
           /\ calls[i].data.upvotes = selectedFragment.upvotes + 1

---------------------------------------------------------------------------
(* Properties of the link from a fragment to its Idea. *)

\* the fragment carries an Idea's id exactly when its status is promoted
LinkedIffPromoted(frag) ==
    (NumField(frag, "promoted_to_idea_id") # 0) <=> (frag.status = "promoted")

\* what does hold: the aggregates of the backend
LinkedIffPromotedOnBackend ==
    \A f \in FragmentIds :
        /\ LinkedIffPromoted(srvFragments[f])
        /\ srvFragments[f].status = "promoted"
               => \E k \in 1..Len(srvIdeas) :
                      /\ srvIdeas[k].id = srvFragments[f].promoted_to_idea_id
                      /\ srvIdeas[k].fragment = f

\* C24: in every reachable state of a fragment, promotedIdeaId is non-null
\* exactly when status is promoted: no state with status promoted and no
\* linked Idea, and none with a linked Idea and a status that is not promoted;
\* at the backend and in the copies the client holds
C24_LinkedIffPromoted ==
    /\ LinkedIffPromotedOnBackend
    /\ \A f \in FragmentIds : \A copy \in ClientCopies(f) : LinkedIffPromoted(copy)

---------------------------------------------------------------------------
(* Properties of the two threshold tests. *)

\* 4 * emotionalNeeds + 5 * revenueImpact
ValuePoints(scores) == 4 * scores["emotional_needs"] + 5 * scores["revenue_impact"]

\* 3 * drasticChange + 3 * pilotComplexity + 2 * peopleBuild + 3 * technologyCapex
EffortPoints(scores) ==
    3 * scores["drastic_change"] + 3 * scores["pilot_complexity"]
    + 2 * scores["people_build"] + 3 * scores["technology_capex"]

\* C25: for integer dimension scores in [1,10], highValue holds exactly when
\* 4 * emotionalNeeds + 5 * revenueImpact >= 59 and highEffort holds exactly
\* when 3 * drasticChange + 3 * pilotComplexity + 2 * peopleBuild
\* + 3 * technologyCapex >= 66; four effort scores of 6 classify as high
\* effort, and no input puts the value score exactly on 6.5
C25_ThresholdsInIntegers ==
    /\ \A k \in Dimensions : rubricScores[k] \in 1..10
    /\ highValueOf(valueScoreOf(rubricScores)) <=> (ValuePoints(rubricScores) >= 59)
    /\ highEffortOf(effortScoreOf(rubricScores)) <=> (EffortPoints(rubricScores) >= 66)
    /\ Uniform(rubricScores, EffortDimensions, 6)
           => highEffortOf(effortScoreOf(rubricScores))
    /\ valueScoreOf(rubricScores) # FHalves(13)

\* what does hold: the value test is the integer test and never meets 6.5
\* exactly; the effort test is the integer test wherever the effort score
\* is not exactly 6
ThresholdsInIntegersOffTheTie ==
    /\ \A k \in Dimensions : rubricScores[k] \in 1..10
    /\ highValueOf(valueScoreOf(rubricScores)) <=> (ValuePoints(rubricScores) >= 59)
    /\ valueScoreOf(rubricScores) # FHalves(13)
    /\ EffortPoints(rubricScores) # 66
           => (highEffortOf(effortScoreOf(rubricScores))
                   <=> (EffortPoints(rubricScores) >= 66))

---------------------------------------------------------------------------
(* Properties of the range of the two scores. *)

\* the double x lies in [1, 10]
InScale(x) == NatGe(x, FInt(1)) /\ NatGe(FInt(10), x)

\* C26: for all six integer dimension scores in [1,10], both the value score
\* and the effort score the classifier computes lie in [1,10]
C26_ScoresInScale ==
    (\A k \in Dimensions : rubricScores[k] \in 1..10)
        => /\ InScale(valueScoreOf(rubricScores))
           /\ InScale(effortScoreOf(rubricScores))
           /\ calculateRubricQuadrant(rubricScores).valueScore \in 10..100
           /\ calculateRubricQuadrant(rubricScores).effortScore \in 10..100

\* C26 witness: with the drawer open all six sliders stand at 1, and both
\* scores are exactly 1
C26_Witness ==
    /\ PreviewRendered
    /\ Uniform(rubricScores, Dimensions, 1)
    /\ valueScoreOf(rubricScores) = FInt(1)
    /\ effortScoreOf(rubricScores) = FInt(1)

\* the other end: all six sliders at 10 give both scores exactly 10
TopOfScaleReached ==
    Uniform(rubricScores, Dimensions, 10)
        => /\ valueScoreOf(rubricScores) = FInt(10)
           /\ effortScoreOf(rubricScores) = FInt(10)

---------------------------------------------------------------------------
(* Properties of the client's copies under answers that arrive out of      *)
(* order.                                                                  *)

\* the copy after does not hold fewer upvotes or a lower score than before
NotBackwards(before, after) ==
    /\ after.upvotes >= before.upvotes
    /\ after.maturity_score >= before.maturity_score

\* in each step, for a fragment that is not promoted: the card of the list
\* and the drawer's copy do not go backwards
CopyStep ==
    \A f \in FragmentIds :
        srvFragments'[f].status # "promoted" =>
            /\ \A k \in 1..Len(fragments), j \in 1..Len(fragments') :
                   (fragments[k].id = f /\ fragments'[j].id = f)
                       => NotBackwards(fragments[k], fragments'[j])
            /\ (selectedFragment.id = f /\ selectedFragment'.id = f)
                   => NotBackwards(selectedFragment, selectedFragment')

\* C27: the upvotes and the maturity_score the client holds for a fragment
\* are non-decreasing over time, also when the answers to several requests
\* in flight for that fragment arrive in another order than they were sent
C27_CopyNeverGoesBackwards == [][CopyStep]_vars

\* what does hold: the step that takes a copy backwards applies an answer
\* that was computed before the copy's content, and only an answer does so
CopyGoesBackOnlyByAnswer ==
    [][CopyStep \/ \E i \in 1..Len(calls) : UpvoteDone(i) \/ AddCommentDone(i)]_vars

---------------------------------------------------------------------------
(* Properties of the selection under late answers. *)

\* the handler of a comment or of an upvote resumes with the answer to
\* calls[i] while the drawer's fragment is another one
LateAnswer(i) ==
    /\ Resumed(i, "addComment") \/ Resumed(i, "upvote")
    /\ selectedFragment # NoFragment
    /\ selectedFragment.id # calls[i].fragId

\* C28: a late answer never changes which fragment is selected: when the
\* answer to a comment or an upvote of fragment A arrives after the user has
\* selected fragment B, selectedFragment still is B and none of B's fields
\* is overwritten with A's data
C28_LateAnswerKeepsSelection ==
    [][\A i \in 1..Len(calls) : LateAnswer(i) => selectedFragment' = selectedFragment]_vars

\* what does hold: a late answer leaves the cards of the other fragments in
\* the list as they are
LateAnswerKeepsOtherCards ==
    [][\A i \in 1..Len(calls) :
          LateAnswer(i) =>
              /\ Len(fragments') = Len(fragments)
              /\ \A k \in 1..Len(fragments) :
                     fragments[k].id # calls[i].fragId => fragments'[k] = fragments[k]]_vars

---------------------------------------------------------------------------
(* Properties of the idea drawer's upvote button. *)

\* C29: while the idea drawer stays open on one idea, at most one upvote
\* request is sent for that idea: after the first click further clicks send
\* nothing, also those made before the first answer has arrived
C29_OneUpvotePerOpening == showIdeaDrawer => upvotesSent <= 1

\* what does hold: once the continuation of a request has set hasUpvoted the
\* button is disabled and the drawer sends no further upvote
NoUpvoteSentOnceUpvoted == [][hasUpvoted => upvotesSent' <= upvotesSent]_vars

---------------------------------------------------------------------------
(* Properties of the way to ready-to-promote. *)

\* the fragment has reached ready-to-promote, or has been promoted on the way
ReadyOrPromoted(f) == srvFragments[f].status \in {"ready-to-promote", "promoted"}

\* the drawer shows fragment f as ready-to-promote
DrawerShowsReady(f) ==
    /\ DrawerOpen
    /\ selectedFragment.id = f
    /\ selectedFragment.status = "ready-to-promote"

\* in each step: a fragment that is ready-to-promote stays so unless a
\* promotion succeeds, which creates its Idea; a promotion of it would be
\* accepted, and the drawer that shows it ready offers the enabled button
\* and goes on showing it ready
ReadyStep ==
    \A f \in FragmentIds :
        /\ srvFragments[f].status = "ready-to-promote" =>
               /\ enginePromote(srvFragments[f], srvIdeas).error = ""
               /\ \/ srvFragments'[f].status = "ready-to-promote"
                  \/ /\ srvFragments'[f].status = "promoted"
                     /\ Len(srvIdeas') = Len(srvIdeas) + 1
                     /\ srvFragments'[f].promoted_to_idea_id = srvIdeas'[Len(srvIdeas')].id
        /\ DrawerShowsReady(f) =>
               /\ promoteButtonShown(selectedFragment)
               /\ ~promoteRefused(selectedFragment)
               /\ (srvFragments'[f].status # "promoted" /\ selectedFragment'.id = f)
                      => selectedFragment'.status = "ready-to-promote"

====
